---- MODULE Spec2Model ----
(***************************************************************************)
(* Model of the incidence-list graph store of AlgoraCore:                  *)
(*   IncidenceListVertex              (per-vertex adjacency lists),        *)
(*   IncidenceListGraphImplementation (vertex/arc lifecycle, pools,        *)
(*                                     activation, bundling).              *)
(* Objects are named by small integers (their addresses); every object     *)
(* carries its id separately, because the store reissues ids.              *)
(* The operations are operators from a store record G to the store record  *)
(* after the call; every action applies one public operation to the        *)
(* variables.                                                              *)
(***************************************************************************)
EXTENDS Integers, Sequences, FiniteSets, TLC

\* Bounds of the model: how many objects the storages may construct.
MaxVertices == 4       \* vertex objects, in the specifications without arcs
MaxGraphVertices == 2  \* vertex objects, in the specifications with arcs
MaxArcs == 3           \* arc objects of the arc storage
MaxArcsSmall == 2      \* arc objects, in the specifications with deactivation or clear
MaxBundles == 2        \* bundles allocated and not yet unreferenced
MaxBundlesSmall == 1   \* the same, in the specification with clear

\* The null pointer.
NULL == 0
\* The default value of the index maps ("no index").
NO_INDEX == 2147483647

VertexObjs == 1..MaxVertices
SimpleArcObjs == 1..MaxArcs
BundleObjs == (MaxArcs + 1)..(MaxArcs + MaxBundles)
ArcObjs == SimpleArcObjs \cup BundleObjs
ArcIds == 0..(MaxArcs - 1)

VARIABLES
    vertices,             \* VertexList vertices
    deactivatedVertices,  \* VertexList deactivatedVertices
    vertexPool,           \* hibernated vertices
    arcPool,              \* hibernated arcs
    numArcs,
    nextVertexId,
    nextArcId,
    vertexStorage,        \* number of vertex objects constructed by vertexStorage
    arcStorage,           \* number of arc objects constructed by arcStorage
    bundleHeap,           \* number of ParallelArcsBundle objects allocated with new
    vertex,               \* vertex object -> its fields (id, valid, CheshireCat)
    arc,                  \* arc object -> its fields (id, tail, head, valid, bundled arcs)
    sharedOutIndexMap,    \* arc id -> position in the tail's outgoing list
    sharedInIndexMap,     \* arc id -> position in the head's incoming list
    signal,               \* "ok", or how the last call ended abnormally
    lastOp,               \* the last public call, its arguments and its result
    snap,                 \* the store as it was before the scenario under observation
    traversal             \* the BreadthFirstSearch or DepthFirstSearch object, if any

storeVars == <<vertices, deactivatedVertices, vertexPool, arcPool, numArcs,
               nextVertexId, nextArcId, vertexStorage, arcStorage, bundleHeap,
               vertex, arc, sharedOutIndexMap, sharedInIndexMap, signal>>
vars == <<storeVars, lastOp, snap, traversal>>

\* The store as one record.
Store ==
    [vertices |-> vertices, deactivatedVertices |-> deactivatedVertices,
     vertexPool |-> vertexPool, arcPool |-> arcPool, numArcs |-> numArcs,
     nextVertexId |-> nextVertexId, nextArcId |-> nextArcId,
     vertexStorage |-> vertexStorage, arcStorage |-> arcStorage,
     bundleHeap |-> bundleHeap, vertex |-> vertex, arc |-> arc,
     sharedOutIndexMap |-> sharedOutIndexMap, sharedInIndexMap |-> sharedInIndexMap,
     signal |-> signal]

\* The arc counter is unsigned in the code: a value below 0 stands for the counter
\* wrapped around by as much. A call is taken only while the counter stays in this
\* range.
NumArcsInRange(G) == G.numArcs \in (0 - 1)..(2 * MaxArcs)

\* The variables become the store G; a call of the store leaves a traversal object
\* as it is.
Becomes(G) ==
    /\ NumArcsInRange(G)
    /\ UNCHANGED traversal
    /\ vertices' = G.vertices
    /\ deactivatedVertices' = G.deactivatedVertices
    /\ vertexPool' = G.vertexPool
    /\ arcPool' = G.arcPool
    /\ numArcs' = G.numArcs
    /\ nextVertexId' = G.nextVertexId
    /\ nextArcId' = G.nextArcId
    /\ vertexStorage' = G.vertexStorage
    /\ arcStorage' = G.arcStorage
    /\ bundleHeap' = G.bundleHeap
    /\ vertex' = G.vertex
    /\ arc' = G.arc
    /\ sharedOutIndexMap' = G.sharedOutIndexMap
    /\ sharedInIndexMap' = G.sharedInIndexMap
    /\ signal' = G.signal

----------------------------------------------------------------------------
\* Helpers on sequences.


Range(s) == {s[i] : i \in 1..Len(s)}
Last(s) == s[Len(s)]
PopBack(s) == SubSeq(s, 1, Len(s) - 1)
\* rbegin() .. rend()
Reverse(s) == [i \in 1..Len(s) |-> s[Len(s) - i + 1]]
\* Number of positions of s that hold x.
Count(s, x) == Cardinality({i \in 1..Len(s) : s[i] = x})

----------------------------------------------------------------------------
\* Arc, ParallelArcsBundle and the property maps.

\* An arc object the storage has not constructed.
NoArc == [id |-> 0, tail |-> NULL, head |-> NULL, valid |-> FALSE, arcs |-> <<>>]

\* dynamic_cast<MultiArc*>(a), dynamic_cast<ParallelArcsBundle*>(a)
isMultiArc(a) == a \in BundleObjs

ArcKey(G, a) == G.arc[a].id

\* FastPropertyMap::operator(): the value stored for the artifact's id, or the default.
\* The keys of the arcs in a FastPropertyMap of store G and in a PropertyMap.
idKey(G) == [a \in ArcObjs |-> ArcKey(G, a)]
objectKey == [a \in ArcObjs |-> a]

fastGet(map, id) == IF id \in DOMAIN map THEN map[id] ELSE NO_INDEX

\* Arc::invalidate, Arc::revalidate
invalidateArc(G, a) == [G EXCEPT !.arc[a].valid = FALSE]
revalidateArc(G, a) == [G EXCEPT !.arc[a].valid = TRUE]
\* Arc::hibernate
hibernateArc(G, a) == invalidateArc(G, a)
\* Arc::recycle(tail, head)
recycleArc(G, a, tail, head) ==
    [G EXCEPT !.arc[a].tail = tail, !.arc[a].head = head, !.arc[a].valid = TRUE]

\* MultiArc::getSize of a bundle
getSize(G, ma) == Len(G.arc[ma].arcs)
\* ParallelArcsBundle::containsArc
bundleContainsArc(G, pab, a) == a \in Range(G.arc[pab].arcs)
\* ParallelArcsBundle::removeArc
bundleRemoveArc(G, pab, a) ==
    [G EXCEPT !.arc[pab].arcs = SelectSeq(@, LAMBDA x : x # a)]
\* ParallelArcsBundle::addArc
bundleAddArc(G, pab, a) == [G EXCEPT !.arc[pab].arcs = Append(@, a)]
\* ParallelArcsBundle::clear
bundleClear(G, pab) == [G EXCEPT !.arc[pab].arcs = <<>>]

\* A failed assert(): the store goes on as the release build leaves it.
assertThat(G, cond) == IF cond THEN G ELSE [G EXCEPT !.signal = "assert"]
\* throw std::invalid_argument
throwInvalidArgument(G) == [G EXCEPT !.signal = "invalid_argument"]

----------------------------------------------------------------------------
\* IncidenceListVertex

\* The fields of a vertex constructed with the given id.
NewVertex(id) ==
    [id |-> id, valid |-> TRUE, index |-> 0, checkConsisteny |-> TRUE,
     outgoingArcs |-> <<>>, incomingArcs |-> <<>>,
     outgoingMultiArcs |-> <<>>, incomingMultiArcs |-> <<>>,
     deactivatedOutgoingArcs |-> <<>>, deactivatedIncomingArcs |-> <<>>,
     deactivatedOutgoingMultiArcs |-> <<>>, deactivatedIncomingMultiArcs |-> <<>>,
     bundle |-> [a \in ArcObjs |-> NULL],
     multiOutIndex |-> [a \in ArcObjs |-> NO_INDEX],
     multiInIndex |-> [a \in ArcObjs |-> NO_INDEX]]

\* A vertex object the storage has not constructed.
NoVertex == [NewVertex(0) EXCEPT !.valid = FALSE]

\* removeArcFromList that moves the last element without recording its new position.
removeArcFromListBackFirst(list, indexMap, key, a) ==
    LET i == IF key[a] \in DOMAIN indexMap THEN indexMap[key[a]] ELSE NO_INDEX
    IN  IF i >= Len(list) \/ list[i + 1] # a
        THEN [ret |-> FALSE, list |-> list, indexMap |-> indexMap]
        ELSE [ret |-> TRUE,
              list |-> PopBack([list EXCEPT ![i + 1] = Last(list)]),
              indexMap |-> [indexMap EXCEPT ![key[a]] = NO_INDEX]]

\* removeArcFromList(list, indexMap, arc): the outcome, the list and the map after it.
removeArcFromList(list, indexMap, key, a) ==
    LET i == IF key[a] \in DOMAIN indexMap THEN indexMap[key[a]] ELSE NO_INDEX
    IN  IF i >= Len(list) \/ list[i + 1] # a
        THEN [ret |-> FALSE, list |-> list, indexMap |-> indexMap]
        ELSE LET swap == Last(list)
                 moved == [indexMap EXCEPT ![key[swap]] = i]
             IN  [ret |-> TRUE,
                  list |-> PopBack([list EXCEPT ![i + 1] = swap]),
                  indexMap |-> [moved EXCEPT ![key[a]] = NO_INDEX]]

\* removeBundledArcFromList(bundleMap, arc) on the bundle map of vertex v.
removeBundledArcFromList(G, v, a) ==
    LET pmb == G.vertex[v].bundle[a]
    IN  IF pmb = NULL
        THEN [g |-> G, ret |-> FALSE]
        ELSE LET G1 == assertThat(G, bundleContainsArc(G, pmb, a))
                 G2 == bundleRemoveArc(G1, pmb, a)
             IN  [g |-> [G2 EXCEPT !.vertex[v].bundle[a] = NULL], ret |-> TRUE]

\* isArcInList(indexMap, list, arc)
isArcInList(indexMap, list, key, a) ==
    LET i == IF key[a] \in DOMAIN indexMap THEN indexMap[key[a]] ELSE NO_INDEX
    IN  i < Len(list) /\ list[i + 1] = a

RECURSIVE sumSizes(_, _, _)
\* for (ParallelArcsBundle *ma : multiArcs) deg += ma->getSize()
sumSizes(G, deg, s) ==
    IF s = <<>> THEN deg
    ELSE sumSizes(G, deg + getSize(G, Head(s)), Tail(s))

\* IncidenceListVertex::getOutDegree
getOutDegree(G, v, multiArcsAsSimple) ==
    LET deg == Len(G.vertex[v].outgoingArcs)
    IN  IF multiArcsAsSimple
        THEN deg + Len(G.vertex[v].outgoingMultiArcs)
        ELSE sumSizes(G, deg, G.vertex[v].outgoingMultiArcs)

\* IncidenceListVertex::getInDegree
getInDegree(G, v, multiArcsAsSimple) ==
    LET deg == Len(G.vertex[v].incomingArcs)
    IN  IF multiArcsAsSimple
        THEN deg + Len(G.vertex[v].incomingMultiArcs)
        ELSE sumSizes(G, deg, G.vertex[v].incomingMultiArcs)

\* The bundle map of v after pab->mapArcs(bundle.setValue(a, pab)).
registerBundle(G, v, ma) ==
    [G EXCEPT !.vertex[v].bundle =
        [a \in ArcObjs |-> IF a \in Range(G.arc[ma].arcs) THEN ma ELSE @[a]]]

\* IncidenceListVertex::addOutgoingMultiArc
addOutgoingMultiArc(G, v, ma) ==
    IF G.vertex[v].checkConsisteny /\ G.arc[ma].tail # v
    THEN throwInvalidArgument(G)
    ELSE registerBundle(
            [G EXCEPT !.vertex[v].multiOutIndex[ma] = Len(G.vertex[v].outgoingMultiArcs),
                      !.vertex[v].outgoingMultiArcs = Append(@, ma)], v, ma)

\* addOutgoingSimpleArc without the check of the tail.
addOutgoingSimpleArcUnchecked(G, v, a) ==
    [G EXCEPT !.sharedOutIndexMap[ArcKey(G, a)] = Len(G.vertex[v].outgoingArcs),
              !.vertex[v].outgoingArcs = Append(@, a)]

\* IncidenceListVertex::addOutgoingSimpleArc
addOutgoingSimpleArc(G, v, a) ==
    IF G.vertex[v].checkConsisteny /\ G.arc[a].tail # v
    THEN throwInvalidArgument(G)
    ELSE [G EXCEPT !.sharedOutIndexMap[ArcKey(G, a)] = Len(G.vertex[v].outgoingArcs),
                   !.vertex[v].outgoingArcs = Append(@, a)]

\* removeOutgoingArc that leaves the recorded index of the moved arc as it was.
removeOutgoingArcStaleSwap(G, v, a) ==
    LET r1 == removeArcFromListBackFirst(G.vertex[v].outgoingArcs, G.sharedOutIndexMap,
                                         idKey(G), a)
    IN  [g |-> [G EXCEPT !.vertex[v].outgoingArcs = r1.list,
                         !.sharedOutIndexMap = r1.indexMap],
         ret |-> r1.ret]

\* IncidenceListVertex::removeOutgoingArc
removeOutgoingArc(G, v, a) ==
    IF G.vertex[v].checkConsisteny /\ G.arc[a].tail # v
    THEN [g |-> throwInvalidArgument(G), ret |-> FALSE]
    ELSE LET r1 == removeArcFromList(G.vertex[v].outgoingArcs, G.sharedOutIndexMap,
                                     idKey(G), a)
             r2 == removeArcFromList(G.vertex[v].outgoingMultiArcs,
                                     G.vertex[v].multiOutIndex, objectKey, a)
         IN  IF r1.ret
             THEN [g |-> [G EXCEPT !.vertex[v].outgoingArcs = r1.list,
                                   !.sharedOutIndexMap = r1.indexMap],
                   ret |-> TRUE]
             ELSE IF r2.ret
             THEN [g |-> [G EXCEPT !.vertex[v].outgoingMultiArcs = r2.list,
                                   !.vertex[v].multiOutIndex = r2.indexMap],
                   ret |-> TRUE]
             ELSE removeBundledArcFromList(G, v, a)

\* The shared index map with the entries of the arcs of list reset to the default.
resetToDefaultAll(G, map, list) ==
    [id \in DOMAIN map |->
        IF \E i \in 1..Len(list) : ArcKey(G, list[i]) = id THEN NO_INDEX ELSE map[id]]

\* A per-vertex index map with the entries of the arcs of list reset to the default.
resetMultiToDefaultAll(map, list) ==
    [a \in DOMAIN map |-> IF a \in Range(list) THEN NO_INDEX ELSE map[a]]

\* IncidenceListVertex::clearOutgoingArcs
clearOutgoingArcs(G, v) ==
    LET x == G.vertex[v]
    IN  [G EXCEPT
            !.sharedOutIndexMap =
                resetToDefaultAll(G, @, x.outgoingArcs \o x.deactivatedOutgoingArcs),
            !.vertex[v].multiOutIndex =
                resetMultiToDefaultAll(@, x.outgoingMultiArcs \o x.deactivatedOutgoingMultiArcs),
            !.vertex[v].outgoingArcs = <<>>,
            !.vertex[v].outgoingMultiArcs = <<>>,
            !.vertex[v].deactivatedOutgoingArcs = <<>>,
            !.vertex[v].deactivatedOutgoingMultiArcs = <<>>]

\* IncidenceListVertex::addIncomingMultiArc
addIncomingMultiArc(G, v, ma) ==
    IF G.vertex[v].checkConsisteny /\ G.arc[ma].head # v
    THEN throwInvalidArgument(G)
    ELSE registerBundle(
            [G EXCEPT !.vertex[v].multiInIndex[ma] = Len(G.vertex[v].incomingMultiArcs),
                      !.vertex[v].incomingMultiArcs = Append(@, ma)], v, ma)

\* IncidenceListVertex::addIncomingSimpleArc
addIncomingSimpleArc(G, v, a) ==
    IF G.vertex[v].checkConsisteny /\ G.arc[a].head # v
    THEN throwInvalidArgument(G)
    ELSE [G EXCEPT !.sharedInIndexMap[ArcKey(G, a)] = Len(G.vertex[v].incomingArcs),
                   !.vertex[v].incomingArcs = Append(@, a)]

\* IncidenceListVertex::removeIncomingArc
removeIncomingArc(G, v, a) ==
    IF G.vertex[v].checkConsisteny /\ G.arc[a].head # v
    THEN [g |-> throwInvalidArgument(G), ret |-> FALSE]
    ELSE LET r1 == removeArcFromList(G.vertex[v].incomingArcs, G.sharedInIndexMap,
                                     idKey(G), a)
             r2 == removeArcFromList(G.vertex[v].incomingMultiArcs,
                                     G.vertex[v].multiInIndex, objectKey, a)
         IN  IF r1.ret
             THEN [g |-> [G EXCEPT !.vertex[v].incomingArcs = r1.list,
                                   !.sharedInIndexMap = r1.indexMap],
                   ret |-> TRUE]
             ELSE IF r2.ret
             THEN [g |-> [G EXCEPT !.vertex[v].incomingMultiArcs = r2.list,
                                   !.vertex[v].multiInIndex = r2.indexMap],
                   ret |-> TRUE]
             ELSE removeBundledArcFromList(G, v, a)

\* IncidenceListVertex::clearIncomingArcs
clearIncomingArcs(G, v) ==
    LET x == G.vertex[v]
    IN  [G EXCEPT
            !.sharedInIndexMap =
                resetToDefaultAll(G, @, x.incomingArcs \o x.deactivatedIncomingArcs),
            !.vertex[v].multiInIndex =
                resetMultiToDefaultAll(@, x.incomingMultiArcs \o x.deactivatedIncomingMultiArcs),
            !.vertex[v].incomingArcs = <<>>,
            !.vertex[v].incomingMultiArcs = <<>>,
            !.vertex[v].deactivatedIncomingArcs = <<>>,
            !.vertex[v].deactivatedIncomingMultiArcs = <<>>]

\* IncidenceListVertex::activateOutgoingArc
activateOutgoingArc(G, v, a) ==
    LET r1 == removeArcFromList(G.vertex[v].deactivatedOutgoingArcs, G.sharedOutIndexMap,
                                idKey(G), a)
        r2 == removeArcFromList(G.vertex[v].deactivatedOutgoingMultiArcs,
                                G.vertex[v].multiOutIndex, objectKey, a)
    IN  IF r1.ret
        THEN [g |-> addOutgoingSimpleArc(
                        [G EXCEPT !.vertex[v].deactivatedOutgoingArcs = r1.list,
                                  !.sharedOutIndexMap = r1.indexMap], v, a),
              ret |-> TRUE]
        ELSE IF r2.ret
        THEN [g |-> addOutgoingMultiArc(
                        [G EXCEPT !.vertex[v].deactivatedOutgoingMultiArcs = r2.list,
                                  !.vertex[v].multiOutIndex = r2.indexMap], v, a),
              ret |-> TRUE]
        ELSE [g |-> G, ret |-> FALSE]

\* IncidenceListVertex::activateIncomingArc
activateIncomingArc(G, v, a) ==
    LET r1 == removeArcFromList(G.vertex[v].deactivatedIncomingArcs, G.sharedInIndexMap,
                                idKey(G), a)
        r2 == removeArcFromList(G.vertex[v].deactivatedIncomingMultiArcs,
                                G.vertex[v].multiInIndex, objectKey, a)
    IN  IF r1.ret
        THEN [g |-> addIncomingSimpleArc(
                        [G EXCEPT !.vertex[v].deactivatedIncomingArcs = r1.list,
                                  !.sharedInIndexMap = r1.indexMap], v, a),
              ret |-> TRUE]
        ELSE IF r2.ret
        THEN [g |-> addIncomingMultiArc(
                        [G EXCEPT !.vertex[v].deactivatedIncomingMultiArcs = r2.list,
                                  !.vertex[v].multiInIndex = r2.indexMap], v, a),
              ret |-> TRUE]
        ELSE [g |-> G, ret |-> FALSE]

\* IncidenceListVertex::deactivateOutgoingArc
deactivateOutgoingArc(G, v, a) ==
    LET removed(r) ==
            IF ~r.ret
            THEN [g |-> r.g, ret |-> FALSE]
            ELSE IF isMultiArc(a)
            THEN [g |-> [r.g EXCEPT
                            !.vertex[v].multiOutIndex[a] =
                                Len(r.g.vertex[v].deactivatedOutgoingMultiArcs),
                            !.vertex[v].deactivatedOutgoingMultiArcs = Append(@, a)],
                  ret |-> TRUE]
            ELSE [g |-> [r.g EXCEPT
                            !.sharedOutIndexMap[ArcKey(G, a)] =
                                Len(r.g.vertex[v].deactivatedOutgoingArcs),
                            !.vertex[v].deactivatedOutgoingArcs = Append(@, a)],
                  ret |-> TRUE]
    IN  removed(removeOutgoingArc(G, v, a))

\* IncidenceListVertex::deactivateIncomingArc
deactivateIncomingArc(G, v, a) ==
    LET removed(r) ==
            IF ~r.ret
            THEN [g |-> r.g, ret |-> FALSE]
            ELSE IF isMultiArc(a)
            THEN [g |-> [r.g EXCEPT
                            !.vertex[v].multiInIndex[a] =
                                Len(r.g.vertex[v].deactivatedIncomingArcs),
                            !.vertex[v].deactivatedIncomingMultiArcs = Append(@, a)],
                  ret |-> TRUE]
            ELSE [g |-> [r.g EXCEPT
                            !.sharedInIndexMap[ArcKey(G, a)] =
                                Len(r.g.vertex[v].deactivatedIncomingArcs),
                            !.vertex[v].deactivatedIncomingArcs = Append(@, a)],
                  ret |-> TRUE]
    IN  removed(removeIncomingArc(G, v, a))

RECURSIVE addOutgoingSimpleArcs(_, _, _)
\* The first loop of activateAllOutgoingArcs.
addOutgoingSimpleArcs(G, v, s) ==
    IF s = <<>> THEN G
    ELSE addOutgoingSimpleArcs(addOutgoingSimpleArc(G, v, Head(s)), v, Tail(s))

RECURSIVE addOutgoingMultiArcs(_, _, _)
\* The second loop of activateAllOutgoingArcs.
addOutgoingMultiArcs(G, v, s) ==
    IF s = <<>> THEN G
    ELSE addOutgoingMultiArcs(addOutgoingMultiArc(G, v, Head(s)), v, Tail(s))

\* IncidenceListVertex::activateAllOutgoingArcs
activateAllOutgoingArcs(G, v) ==
    LET G1 == addOutgoingSimpleArcs(G, v, G.vertex[v].deactivatedOutgoingArcs)
        G2 == [G1 EXCEPT !.vertex[v].deactivatedOutgoingArcs = <<>>]
        G3 == addOutgoingMultiArcs(G2, v, G.vertex[v].deactivatedOutgoingMultiArcs)
    IN  [G3 EXCEPT !.vertex[v].deactivatedOutgoingMultiArcs = <<>>]

RECURSIVE deactivateOutgoingSimpleArcs(_, _, _)
\* The first loop of deactivateAllOutgoingArcs.
deactivateOutgoingSimpleArcs(G, v, s) ==
    IF s = <<>> THEN G
    ELSE deactivateOutgoingSimpleArcs(
             [G EXCEPT !.sharedOutIndexMap[ArcKey(G, Head(s))] =
                           Len(G.vertex[v].deactivatedOutgoingArcs),
                       !.vertex[v].deactivatedOutgoingArcs = Append(@, Head(s))],
             v, Tail(s))

RECURSIVE deactivateOutgoingMultiArcs(_, _, _)
\* The second loop of deactivateAllOutgoingArcs.
deactivateOutgoingMultiArcs(G, v, s) ==
    IF s = <<>> THEN G
    ELSE deactivateOutgoingMultiArcs(
             [G EXCEPT !.vertex[v].multiOutIndex[Head(s)] =
                           Len(G.vertex[v].deactivatedOutgoingMultiArcs),
                       !.vertex[v].deactivatedOutgoingMultiArcs = Append(@, Head(s))],
             v, Tail(s))

\* IncidenceListVertex::deactivateAllOutgoingArcs
deactivateAllOutgoingArcs(G, v) ==
    LET G1 == deactivateOutgoingSimpleArcs(G, v, G.vertex[v].outgoingArcs)
        G2 == deactivateOutgoingMultiArcs(G1, v, G.vertex[v].outgoingMultiArcs)
    IN  [G2 EXCEPT !.vertex[v].outgoingArcs = <<>>, !.vertex[v].outgoingMultiArcs = <<>>]

RECURSIVE addIncomingSimpleArcs(_, _, _)
\* The first loop of activateAllIncomingArcs.
addIncomingSimpleArcs(G, v, s) ==
    IF s = <<>> THEN G
    ELSE addIncomingSimpleArcs(addIncomingSimpleArc(G, v, Head(s)), v, Tail(s))

RECURSIVE addIncomingMultiArcs(_, _, _)
\* The second loop of activateAllIncomingArcs.
addIncomingMultiArcs(G, v, s) ==
    IF s = <<>> THEN G
    ELSE addIncomingMultiArcs(addIncomingMultiArc(G, v, Head(s)), v, Tail(s))

\* IncidenceListVertex::activateAllIncomingArcs
activateAllIncomingArcs(G, v) ==
    LET G1 == addIncomingSimpleArcs(G, v, G.vertex[v].deactivatedIncomingArcs)
        G2 == [G1 EXCEPT !.vertex[v].deactivatedIncomingArcs = <<>>]
        G3 == addIncomingMultiArcs(G2, v, G.vertex[v].deactivatedIncomingMultiArcs)
    IN  [G3 EXCEPT !.vertex[v].deactivatedIncomingMultiArcs = <<>>]

RECURSIVE deactivateIncomingSimpleArcs(_, _, _)
\* The first loop of deactivateAllIncomingArcs.
deactivateIncomingSimpleArcs(G, v, s) ==
    IF s = <<>> THEN G
    ELSE deactivateIncomingSimpleArcs(
             [G EXCEPT !.sharedInIndexMap[ArcKey(G, Head(s))] =
                           Len(G.vertex[v].deactivatedIncomingArcs),
                       !.vertex[v].deactivatedIncomingArcs = Append(@, Head(s))],
             v, Tail(s))

RECURSIVE deactivateIncomingMultiArcs(_, _, _)
\* The second loop of deactivateAllIncomingArcs.
deactivateIncomingMultiArcs(G, v, s) ==
    IF s = <<>> THEN G
    ELSE deactivateIncomingMultiArcs(
             [G EXCEPT !.vertex[v].multiInIndex[Head(s)] =
                           Len(G.vertex[v].deactivatedIncomingMultiArcs),
                       !.vertex[v].deactivatedIncomingMultiArcs = Append(@, Head(s))],
             v, Tail(s))

\* IncidenceListVertex::deactivateAllIncomingArcs
deactivateAllIncomingArcs(G, v) ==
    LET G1 == deactivateIncomingSimpleArcs(G, v, G.vertex[v].incomingArcs)
        G2 == deactivateIncomingMultiArcs(G1, v, G.vertex[v].incomingMultiArcs)
    IN  [G2 EXCEPT !.vertex[v].incomingArcs = <<>>, !.vertex[v].incomingMultiArcs = <<>>]

\* The lambda of removeVertex over the outgoing arcs.
removeVertexOut(G, a) ==
    LET r == removeIncomingArc(G, G.arc[a].head, a)
    IN  [hibernateArc(r.g, a) EXCEPT !.arcPool = Append(@, a), !.numArcs = @ - 1]

\* The lambda of removeVertex over the incoming arcs.
removeVertexIn(G, a) ==
    LET r == removeOutgoingArc(G, G.arc[a].tail, a)
    IN  [hibernateArc(r.g, a) EXCEPT !.arcPool = Append(@, a), !.numArcs = @ - 1]

\* The lambda of activateVertex and activateAll over the deactivated outgoing arcs.
activateAtHead(G, a) == revalidateArc(activateIncomingArc(G, G.arc[a].head, a).g, a)

\* The lambda of activateVertex and activateAll over the deactivated incoming arcs.
activateAtTail(G, a) == revalidateArc(activateOutgoingArc(G, G.arc[a].tail, a).g, a)

\* The lambda of deactivateVertex over the outgoing arcs.
deactivateAtHead(G, a) == invalidateArc(deactivateIncomingArc(G, G.arc[a].head, a).g, a)

\* The lambda of deactivateVertex over the incoming arcs.
deactivateAtTail(G, a) == invalidateArc(deactivateOutgoingArc(G, G.arc[a].tail, a).g, a)

\* The lambda of clear.
clearArc(G, a) == [hibernateArc(G, a) EXCEPT !.arcPool = Append(@, a)]

\* avFun(a) for the lambdas that the graph implementation hands to the map functions.
applyArcMapping(G, avFun, a) ==
    CASE avFun = "removeVertexOut" -> removeVertexOut(G, a)
      [] avFun = "removeVertexIn" -> removeVertexIn(G, a)
      [] avFun = "activateAtHead" -> activateAtHead(G, a)
      [] avFun = "activateAtTail" -> activateAtTail(G, a)
      [] avFun = "deactivateAtHead" -> deactivateAtHead(G, a)
      [] avFun = "deactivateAtTail" -> deactivateAtTail(G, a)
      [] avFun = "clearArc" -> clearArc(G, a)

RECURSIVE mapArcList(_, _, _, _)
\* for (Arc *a : list) if (!checkValidity || a->isValid()) avFun(a), with a break
\* condition that never holds; avFun takes the store to the store after the call.
mapArcList(G, list, avFun, checkValidity) ==
    IF list = <<>> THEN G
    ELSE mapArcList(IF ~checkValidity \/ G.arc[Head(list)].valid
                    THEN applyArcMapping(G, avFun, Head(list)) ELSE G,
                    Tail(list), avFun, checkValidity)

\* IncidenceListVertex::mapOutgoingArcs(avFun, arcFalse, checkValidity)
mapOutgoingArcs(G, v, avFun, checkValidity) ==
    mapArcList(G, G.vertex[v].outgoingArcs \o G.vertex[v].outgoingMultiArcs,
               avFun, checkValidity)

\* IncidenceListVertex::mapIncomingArcs(avFun, arcFalse, checkValidity)
mapIncomingArcs(G, v, avFun, checkValidity) ==
    mapArcList(G, G.vertex[v].incomingArcs \o G.vertex[v].incomingMultiArcs,
               avFun, checkValidity)

\* IncidenceListVertex::mapDeactivatedOutgoingArcs(avFun, arcFalse, checkValidity)
mapDeactivatedOutgoingArcs(G, v, avFun, checkValidity) ==
    mapArcList(G, G.vertex[v].deactivatedOutgoingArcs
                    \o G.vertex[v].deactivatedOutgoingMultiArcs,
               avFun, checkValidity)

\* IncidenceListVertex::mapDeactivatedIncomingArcs(avFun, arcFalse, checkValidity)
mapDeactivatedIncomingArcs(G, v, avFun, checkValidity) ==
    mapArcList(G, G.vertex[v].deactivatedIncomingArcs
                    \o G.vertex[v].deactivatedIncomingMultiArcs,
               avFun, checkValidity)

\* The default of checkValidity in the live and in the deactivated map functions.
CheckValidityDefault == TRUE
CheckValidityDefaultDeactivated == FALSE

\* IncidenceListVertex::setIndex
setIndex(G, v, i) == [G EXCEPT !.vertex[v].index = i]

\* IncidenceListVertex::CheshireCat::clear
grinClear(G, v) ==
    LET x == G.vertex[v]
        G1 == [G EXCEPT !.sharedOutIndexMap =
                            resetToDefaultAll(G, @, x.outgoingArcs \o x.incomingArcs)]
    IN  [G1 EXCEPT !.vertex[v] =
            [NewVertex(x.id) EXCEPT !.valid = x.valid, !.index = x.index,
                                    !.checkConsisteny = x.checkConsisteny]]

\* IncidenceListVertex::hibernate
hibernate(G, v) == grinClear([G EXCEPT !.vertex[v].valid = FALSE], v)

\* IncidenceListVertex::recycle
recycle(G, v) == [G EXCEPT !.vertex[v].valid = TRUE]

\* IncidenceListVertex::hasOutgoingArc
hasOutgoingArc(G, v, a) ==
    LET x == G.vertex[v]
    IN  \/ isArcInList(G.sharedOutIndexMap, x.outgoingArcs, idKey(G), a)
        \/ isArcInList(x.multiOutIndex, x.outgoingMultiArcs, objectKey, a)
        \/ /\ x.bundle[a] # NULL
           /\ isArcInList(G.sharedOutIndexMap, x.outgoingMultiArcs,
                          idKey(G), x.bundle[a])

----------------------------------------------------------------------------
\* IncidenceListGraphImplementation

\* IncidenceListGraphImplementation::addVertex
addVertex(G, v) ==
    [setIndex(G, v, Len(G.vertices)) EXCEPT !.vertices = Append(@, v)]

\* removeVertex that forgets to tell the moved vertex its new position.
removeVertexStaleIndex(G, v) ==
    LET G4 == clearIncomingArcs(mapIncomingArcs(clearOutgoingArcs(
                  mapOutgoingArcs(G, v, "removeVertexOut", FALSE), v),
                  v, "removeVertexIn", FALSE), v)
        index == G4.vertex[v].index
        G6 == [G4 EXCEPT !.vertices = PopBack([@ EXCEPT ![index + 1] = Last(G4.vertices)])]
    IN  [hibernate(G6, v) EXCEPT !.vertexPool = Append(@, v)]

\* IncidenceListGraphImplementation::removeVertex
removeVertex(G, v) ==
    LET G1 == mapOutgoingArcs(G, v, "removeVertexOut", FALSE)
        G2 == clearOutgoingArcs(G1, v)
        G3 == mapIncomingArcs(G2, v, "removeVertexIn", FALSE)
        G4 == clearIncomingArcs(G3, v)
        swapOut(S, o, index) ==
            [hibernate([setIndex(S, o, index) EXCEPT
                            !.vertices = PopBack([@ EXCEPT ![index + 1] = o])], v)
                EXCEPT !.vertexPool = Append(@, v)]
        swapOutOf(S) == swapOut(S, Last(S.vertices), S.vertex[v].index)
    IN  swapOutOf(G4)

\* IncidenceListGraphImplementation::containsVertex (the vertex is of this graph)
containsVertex(G, v) ==
    /\ G.vertex[v].index < Len(G.vertices)
    /\ G.vertices[G.vertex[v].index + 1] = v

\* IncidenceListGraphImplementation::addMultiArc
addMultiArc(G, ma, tail, head) ==
    LET G1 == addOutgoingMultiArc(G, tail, ma)
        G2 == addIncomingMultiArc(G1, head, ma)
    IN  IF G1.signal # "ok" THEN G1
        ELSE IF G2.signal # "ok" THEN G2
        ELSE [G2 EXCEPT !.numArcs = @ + 1]

\* IncidenceListGraphImplementation::addSimpleArc
addSimpleArc(G, a, tail, head) ==
    LET G1 == addOutgoingSimpleArc(G, tail, a)
        G2 == addIncomingSimpleArc(G1, head, a)
    IN  IF G1.signal # "ok" THEN G1
        ELSE IF G2.signal # "ok" THEN G2
        ELSE [G2 EXCEPT !.numArcs = @ + 1]

\* IncidenceListGraphImplementation::addArc
addArc(G, a, tail, head) ==
    IF isMultiArc(a) THEN addMultiArc(G, a, tail, head) ELSE addSimpleArc(G, a, tail, head)

\* IncidenceListGraphImplementation::removeArc
removeArc(G, a, tail, head) ==
    LET atHead(S) ==
            IF S.signal # "ok" THEN S
            ELSE [hibernateArc(S, a) EXCEPT !.numArcs = @ - 1, !.arcPool = Append(@, a)]
        atTail(S) ==
            IF S.signal # "ok" THEN S
            ELSE atHead(removeIncomingArc(S, head, a).g)
    IN  atTail(removeOutgoingArc(G, tail, a).g)

\* IncidenceListGraphImplementation::containsArc
containsArc(G, a, tail) == hasOutgoingArc(G, tail, a)

\* The store after hasOutgoingArc(a) on v: isBundledArc is reached when a is in neither
\* list of v, and asserts pmb->containsArc(arc) when the bundle map has an entry.
hasOutgoingArcAsserted(G, v, a) ==
    LET x == G.vertex[v]
    IN  IF \/ isArcInList(G.sharedOutIndexMap, x.outgoingArcs, idKey(G), a)
           \/ isArcInList(x.multiOutIndex, x.outgoingMultiArcs, objectKey, a)
           \/ x.bundle[a] = NULL
        THEN G
        ELSE assertThat(G, bundleContainsArc(G, x.bundle[a], a))

RECURSIVE sumOutDegrees(_, _, _)
\* for (auto v : vertices) arcWeights += v->getOutDegree(multiArcsAsSimple)
sumOutDegrees(G, n, s) ==
    IF s = <<>> THEN n
    ELSE sumOutDegrees(G, n + getOutDegree(G, Head(s), FALSE), Tail(s))

RECURSIVE findArcIn(_, _, _, _)
\* The two loops of mapOutgoingArcs with the lambda of findArc and its break
\* condition arc != nullptr; list is the rest of the simple arcs and the bundles,
\* found the value of the local variable arc.
findArcIn(G, list, head, found) ==
    IF list = <<>> \/ found # NULL THEN found
    ELSE findArcIn(G, Tail(list), head,
                   IF (~CheckValidityDefault \/ G.arc[Head(list)].valid)
                          /\ G.arc[Head(list)].head = head
                   THEN Head(list) ELSE found)

\* findArc that lets a later match replace an earlier one.
findArcLast(G, tail, head) ==
    LET matches == SelectSeq(G.vertex[tail].outgoingArcs \o G.vertex[tail].outgoingMultiArcs,
                             LAMBDA a : G.arc[a].valid /\ G.arc[a].head = head)
    IN  IF matches = <<>> THEN NULL ELSE Last(matches)

\* IncidenceListGraphImplementation::findArc
findArc(G, tail, head) ==
    findArcIn(G, G.vertex[tail].outgoingArcs \o G.vertex[tail].outgoingMultiArcs,
              head, NULL)

\* IncidenceListGraphImplementation::getNumArcs
getNumArcs(G, multiArcsAsSimple) ==
    IF multiArcsAsSimple
    THEN G.numArcs
    ELSE sumOutDegrees(G, 0, G.vertices)

\* IncidenceListGraphImplementation::getSize
graphSize(G) == Len(G.vertices)

\* IncidenceListGraphImplementation::createIncidenceListVertex: the store and the
\* vertex constructed (recycledVertexIds is empty at all times: nothing fills it).
createIncidenceListVertex(G) ==
    LET v == G.vertexStorage + 1
    IN  [g |-> [G EXCEPT !.nextVertexId = @ + 1,
                         !.vertexStorage = v,
                         !.vertex[v] = NewVertex(G.nextVertexId)],
         ret |-> v]

\* recycleOrCreateIncidenceListVertex that serves the pool from its front.
recycleOrCreateIncidenceListVertexFront(G) ==
    IF G.vertexPool # <<>>
    THEN LET v == Head(G.vertexPool)
         IN  [g |-> recycle([G EXCEPT !.vertexPool = Tail(@)], v), ret |-> v]
    ELSE createIncidenceListVertex(G)

\* IncidenceListGraphImplementation::recycleOrCreateIncidenceListVertex
recycleOrCreateIncidenceListVertex(G) ==
    IF G.vertexPool # <<>>
    THEN LET v == Last(G.vertexPool)
         IN  [g |-> recycle([G EXCEPT !.vertexPool = PopBack(@)], v), ret |-> v]
    ELSE createIncidenceListVertex(G)

\* IncidenceListGraphImplementation::createArc: the store and the arc constructed
\* (recycledArcIds is empty at all times: nothing fills it).
createArc(G, tail, head) ==
    LET a == G.arcStorage + 1
        G1 == [G EXCEPT !.nextArcId = @ + 1,
                        !.arcStorage = a,
                        !.arc[a] = [NoArc EXCEPT !.id = G.nextArcId]]
    IN  [g |-> recycleArc(G1, a, tail, head), ret |-> a]

\* IncidenceListGraphImplementation::recycleOrCreateArc
recycleOrCreateArc(G, tail, head) ==
    IF G.arcPool # <<>>
    THEN LET a == Last(G.arcPool)
         IN  [g |-> recycleArc([G EXCEPT !.arcPool = PopBack(@)], a, tail, head), ret |-> a]
    ELSE createArc(G, tail, head)

\* The incident arcs of v are activated at their other ends, then at v.
activateIncidentArcs(G, v) ==
    LET G1 == mapDeactivatedOutgoingArcs(G, v, "activateAtHead", CheckValidityDefaultDeactivated)
        G2 == mapDeactivatedIncomingArcs(G1, v, "activateAtTail", CheckValidityDefaultDeactivated)
    IN  activateAllIncomingArcs(activateAllOutgoingArcs(G2, v), v)


RECURSIVE createHibernatedVertices(_, _, _)
\* The for loop of reserveVertexCapacity: the store and tmp after `reserve` more passes.
createHibernatedVertices(G, tmp, reserve) ==
    IF reserve = 0 THEN [g |-> G, tmp |-> tmp]
    ELSE LET created(r) ==
                 createHibernatedVertices(hibernate(r.g, r.ret), Append(tmp, r.ret),
                                          reserve - 1)
         IN  created(createIncidenceListVertex(G))

\* reserveVertexCapacity that constructs one instance less than it lacks.
reserveVertexCapacityOneShort(G, n) ==
    IF n <= Len(G.vertices) + Len(G.vertexPool)
    THEN G
    ELSE LET pooled(r) == [r.g EXCEPT !.vertexPool = @ \o Reverse(r.tmp)]
         IN  pooled(createHibernatedVertices(G, <<>>, n - graphSize(G) - 1))

\* IncidenceListGraphImplementation::reserveVertexCapacity
reserveVertexCapacity(G, n) ==
    IF n <= Len(G.vertices) + Len(G.vertexPool)
    THEN G
    ELSE LET pooled(r) == [r.g EXCEPT !.vertexPool = @ \o Reverse(r.tmp)]
         IN  pooled(createHibernatedVertices(G, <<>>, n - graphSize(G)))

RECURSIVE createHibernatedArcs(_, _, _)
\* The for loop of reserveArcCapacity: the store and tmp after `reserve` more passes.
createHibernatedArcs(G, tmp, reserve) ==
    IF reserve = 0 THEN [g |-> G, tmp |-> tmp]
    ELSE LET created(r) ==
                 createHibernatedArcs(hibernateArc(r.g, r.ret), Append(tmp, r.ret),
                                      reserve - 1)
         IN  created(createArc(G, NULL, NULL))

\* n <= numArcs + arcPool.size() in unsigned arithmetic: a negative sum stands for
\* a value near the top of the range.
withinArcCapacity(G, n) ==
    LET capacity == G.numArcs + Len(G.arcPool)
    IN  capacity < 0 \/ n <= capacity

\* IncidenceListGraphImplementation::reserveArcCapacity
reserveArcCapacity(G, n) ==
    IF withinArcCapacity(G, n) \/ n - G.numArcs = 0
    THEN G
    ELSE LET pooled(r) == [r.g EXCEPT !.arcPool = @ \o Reverse(r.tmp)]
         IN  pooled(createHibernatedArcs(G, <<>>, n - G.numArcs))

\* IncidenceListGraphImplementation::activateVertex
activateVertex(G, v, activateArcs) ==
    LET index == G.vertex[v].index
        n == Len(G.deactivatedVertices)
    IN  IF index >= n \/ G.deactivatedVertices[index + 1] # v
        THEN [g |-> G, ret |-> FALSE]
        ELSE LET back == Last(G.deactivatedVertices)
                 G1 == IF index < n - 1
                       THEN [setIndex(G, back, index) EXCEPT
                                !.deactivatedVertices[index + 1] = back]
                       ELSE G
                 G2 == [G1 EXCEPT !.deactivatedVertices = PopBack(@)]
                 G3 == [setIndex(G2, v, Len(G2.vertices)) EXCEPT
                            !.vertices = Append(@, v), !.vertex[v].valid = TRUE]
             IN  [g |-> IF activateArcs THEN activateIncidentArcs(G3, v) ELSE G3,
                  ret |-> TRUE]

\* deactivateVertex that forgets to tell the moved vertex its new position.
deactivateVertexStaleIndex(G, v) ==
    LET index == G.vertex[v].index
    IN  IF index >= Len(G.vertices) \/ G.vertices[index + 1] # v
        THEN [g |-> G, ret |-> FALSE]
        ELSE LET G1 == mapOutgoingArcs(G, v, "deactivateAtHead", CheckValidityDefault)
                 G2 == mapIncomingArcs(G1, v, "deactivateAtTail", CheckValidityDefault)
                 G3 == deactivateAllIncomingArcs(deactivateAllOutgoingArcs(G2, v), v)
                 swapOut(S, back) ==
                     [S EXCEPT !.vertices = PopBack([@ EXCEPT ![index + 1] = back])]
                 shelve(S) ==
                     [setIndex(S, v, Len(S.deactivatedVertices)) EXCEPT
                         !.deactivatedVertices = Append(@, v),
                         !.vertex[v].valid = FALSE]
                 swapOutAndShelve(S) == shelve(swapOut(S, Last(S.vertices)))
             IN  [g |-> swapOutAndShelve(G3), ret |-> TRUE]

\* IncidenceListGraphImplementation::deactivateVertex
deactivateVertex(G, v) ==
    LET index == G.vertex[v].index
    IN  IF index >= Len(G.vertices) \/ G.vertices[index + 1] # v
        THEN [g |-> G, ret |-> FALSE]
        ELSE LET G1 == mapOutgoingArcs(G, v, "deactivateAtHead", CheckValidityDefault)
                 G2 == mapIncomingArcs(G1, v, "deactivateAtTail", CheckValidityDefault)
                 G3 == deactivateAllIncomingArcs(deactivateAllOutgoingArcs(G2, v), v)
                 swapOut(S, back) ==
                     [setIndex(S, back, index) EXCEPT
                         !.vertices = PopBack([@ EXCEPT ![index + 1] = back])]
                 shelve(S) ==
                     [setIndex(S, v, Len(S.deactivatedVertices)) EXCEPT
                         !.deactivatedVertices = Append(@, v),
                         !.vertex[v].valid = FALSE]
                 swapOutAndShelve(S) == shelve(swapOut(S, Last(S.vertices)))
             IN  [g |-> swapOutAndShelve(G3), ret |-> TRUE]

\* IncidenceListGraphImplementation::activateArc
activateArc(G, a, tail, head) ==
    LET atHead(r2) ==
            IF ~r2.ret THEN [g |-> r2.g, ret |-> FALSE]
            ELSE [g |-> [revalidateArc(r2.g, a) EXCEPT !.numArcs = @ + 1], ret |-> TRUE]
        atTail(r1) ==
            IF ~r1.ret THEN [g |-> r1.g, ret |-> FALSE]
            ELSE atHead(activateIncomingArc(r1.g, head, a))
    IN  atTail(activateOutgoingArc(G, tail, a))

\* IncidenceListGraphImplementation::deactivateArc
deactivateArc(G, a, tail, head) ==
    LET atHead(r2) ==
            IF ~r2.ret THEN [g |-> r2.g, ret |-> FALSE]
            ELSE [g |-> [invalidateArc(r2.g, a) EXCEPT !.numArcs = @ - 1], ret |-> TRUE]
        atTail(r1) ==
            IF ~r1.ret THEN [g |-> r1.g, ret |-> FALSE]
            ELSE atHead(deactivateIncomingArc(r1.g, head, a))
    IN  atTail(deactivateOutgoingArc(G, tail, a))

RECURSIVE activateAllDeactivated(_)
\* The while loop of activateAll.
activateAllDeactivated(G) ==
    IF G.deactivatedVertices = <<>>
    THEN G
    ELSE LET v == Last(G.deactivatedVertices)
             G1 == assertThat(G, G.vertex[v].index = Len(G.deactivatedVertices) - 1)
             G2 == [G1 EXCEPT !.deactivatedVertices = PopBack(@)]
             G3 == [setIndex(G2, v, Len(G2.vertices)) EXCEPT
                        !.vertices = Append(@, v), !.vertex[v].valid = TRUE]
         IN  activateAllDeactivated(activateIncidentArcs(G3, v))

RECURSIVE activateAllArcsOfEach(_, _)
\* The for loop of activateAll over the vertices.
activateAllArcsOfEach(G, s) ==
    IF s = <<>> THEN G
    ELSE activateAllArcsOfEach(
             activateAllIncomingArcs(activateAllOutgoingArcs(G, Head(s)), Head(s)), Tail(s))

\* IncidenceListGraphImplementation::activateAll
activateAll(G) ==
    activateAllDeactivated(
        activateAllArcsOfEach(G, G.vertices))

\* The lambda of unbundleOutgoingArcs: st = [g, arcs, arcBundles].
unbundleCollect(st, a) ==
    IF isMultiArc(a)
    THEN [g |-> bundleClear(st.g, a),
          arcs |-> st.arcs \o st.g.arc[a].arcs,
          arcBundles |-> Append(st.arcBundles, a)]
    ELSE st

RECURSIVE unbundleCollectEach(_, _)
\* vertex->mapOutgoingArcs of unbundleOutgoingArcs.
unbundleCollectEach(st, s) ==
    IF s = <<>> THEN st
    ELSE unbundleCollectEach(IF ~CheckValidityDefault \/ st.g.arc[Head(s)].valid
                             THEN unbundleCollect(st, Head(s)) ELSE st,
                             Tail(s))

RECURSIVE removeBundles(_, _, _)
\* The loop of unbundleOutgoingArcs over arcBundles.
removeBundles(G, v, s) ==
    IF s = <<>> THEN G
    ELSE removeBundles(removeArc(G, Head(s), v, G.arc[Head(s)].head), v, Tail(s))

RECURSIVE addMembers(_, _, _)
\* The loop of unbundleOutgoingArcs over arcs.
addMembers(G, v, s) ==
    IF s = <<>> THEN G
    ELSE addMembers(addArc(G, Head(s), v, G.arc[Head(s)].head), v, Tail(s))

\* unbundleOutgoingArcs that removes the bundles and does not add their arcs again.
unbundleOutgoingArcsDropMembers(G, v) ==
    LET x == G.vertex[v]
        st == unbundleCollectEach([g |-> G, arcs |-> <<>>, arcBundles |-> <<>>],
                                  x.outgoingArcs \o x.outgoingMultiArcs)
    IN  removeBundles(st.g, v, st.arcBundles)

\* IncidenceListGraphImplementation::unbundleOutgoingArcs
unbundleOutgoingArcs(G, v) ==
    LET x == G.vertex[v]
        st == unbundleCollectEach([g |-> G, arcs |-> <<>>, arcBundles |-> <<>>],
                                  x.outgoingArcs \o x.outgoingMultiArcs)
        G1 == removeBundles(st.g, v, st.arcBundles)
    IN  addMembers(G1, v, st.arcs)

RECURSIVE unbundleOutgoingArcsOfEach(_, _)
\* The loop of unbundleParallelArcs over the vertices.
unbundleOutgoingArcsOfEach(G, s) ==
    IF s = <<>> THEN G
    ELSE unbundleOutgoingArcsOfEach(unbundleOutgoingArcs(G, Head(s)), Tail(s))

\* IncidenceListGraphImplementation::unbundleParallelArcs
unbundleParallelArcs(G) == unbundleOutgoingArcsOfEach(G, G.vertices)

\* new ParallelArcsBundle(mappedArc): the store and the bundle allocated.
newParallelArcsBundle(G, mappedArc) ==
    LET b == MaxArcs + G.bundleHeap + 1
    IN  [g |-> [G EXCEPT !.bundleHeap = @ + 1,
                         !.arc[b] = [G.arc[mappedArc] EXCEPT !.valid = TRUE,
                                                          !.arcs = <<mappedArc>>]],
         ret |-> b]

\* The first loop of bundleOutgoingArcs: st = [g, map], map[head] the arc or the
\* bundle of the arcs seen so far that lead to head.
bundleGroup(st, outArc) ==
    LET head == st.g.arc[outArc].head
        mappedArc == st.map[head]
    IN  IF mappedArc = NULL
        THEN [st EXCEPT !.map[head] = outArc]
        ELSE IF isMultiArc(mappedArc)
        THEN [st EXCEPT !.g = bundleAddArc(@, mappedArc, outArc)]
        ELSE LET n == newParallelArcsBundle(st.g, mappedArc)
             IN  [g |-> bundleAddArc(n.g, n.ret, outArc),
                  map |-> [st.map EXCEPT ![head] = n.ret]]

\* bundleAttach that adds a bundle to the list of its tail only.
bundleAttachTailOnly(G, tail, head, a) ==
    IF isMultiArc(a)
    THEN addOutgoingMultiArc(G, tail, a)
    ELSE addIncomingSimpleArc(addOutgoingSimpleArc(G, tail, a), head, a)

\* The second loop of bundleOutgoingArcs, for one entry of the map.
bundleAttach(G, tail, head, a) ==
    IF isMultiArc(a)
    THEN addIncomingMultiArc(addOutgoingMultiArc(G, tail, a), head, a)
    ELSE addIncomingSimpleArc(addOutgoingSimpleArc(G, tail, a), head, a)

RECURSIVE bundleGroupEach(_, _)
\* The first loop of bundleOutgoingArcs.
bundleGroupEach(st, s) ==
    IF s = <<>> THEN st
    ELSE bundleGroupEach(bundleGroup(st, Head(s)), Tail(s))

RECURSIVE bundleAttachEach(_, _, _, _)
\* The second loop of bundleOutgoingArcs, over the entries of the map.
bundleAttachEach(G, tail, map, s) ==
    IF s = <<>> THEN G
    ELSE bundleAttachEach(IF map[Head(s)] = NULL THEN G
                          ELSE bundleAttach(G, tail, Head(s), map[Head(s)]),
                          tail, map, Tail(s))

\* IncidenceListGraphImplementation::bundleOutgoingArcs; order is the order in which
\* the unordered_map is iterated, a sequence of all vertex objects.
bundleOutgoingArcs(G, tail, order) ==
    LET x == G.vertex[tail]
        outArcs == SelectSeq(x.outgoingArcs \o x.outgoingMultiArcs,
                             LAMBDA a : ~CheckValidityDefault \/ G.arc[a].valid)
        st == bundleGroupEach([g |-> clearOutgoingArcs(G, tail),
                               map |-> [h \in VertexObjs |-> NULL]], outArcs)
    IN  bundleAttachEach(st.g, tail, st.map, order)

RECURSIVE clearIncomingArcsOfEach(_, _)
\* The first loop of bundleParallelArcs over the vertices.
clearIncomingArcsOfEach(G, s) ==
    IF s = <<>> THEN G
    ELSE clearIncomingArcsOfEach(clearIncomingArcs(G, Head(s)), Tail(s))

RECURSIVE bundleOutgoingArcsOfEach(_, _, _)
\* The second loop of bundleParallelArcs over the vertices.
bundleOutgoingArcsOfEach(G, s, order) ==
    IF s = <<>> THEN G
    ELSE bundleOutgoingArcsOfEach(bundleOutgoingArcs(G, Head(s), order), Tail(s), order)

\* IncidenceListGraphImplementation::bundleParallelArcs
bundleParallelArcs(G, order) ==
    LET clearIncoming(S) == clearIncomingArcsOfEach(S, S.vertices)
        bundleOutgoing(S) == bundleOutgoingArcsOfEach(S, S.vertices, order)
    IN  bundleOutgoing(clearIncoming(unbundleParallelArcs(G)))

\* The number of bundles bundleParallelArcs allocates in the store G.
bundlesNeeded(G) ==
    LET out(U, v) == SelectSeq(U.vertex[v].outgoingArcs \o U.vertex[v].outgoingMultiArcs,
                               LAMBDA a : U.arc[a].valid)
        parallel(U, arcs, h) == Cardinality({i \in 1..Len(arcs) : U.arc[arcs[i]].head = h}) >= 2
        needed(U) == Cardinality({p \in Range(U.vertices) \X VertexObjs :
                                    parallel(U, out(U, p[1]), p[2])})
    IN  needed(unbundleParallelArcs(G))

\* The body of the loop of clear over the vertices.
clearVertex(G, v) ==
    LET G1 == mapOutgoingArcs(G, v, "clearArc", FALSE)
        G2 == clearIncomingArcs(clearOutgoingArcs(G1, v), v)
    IN  [hibernate(G2, v) EXCEPT !.vertexPool = Append(@, v)]

\* The loops of clear that order a pool by id: st = [pool, signal], x the next
\* instance of the old pool, size the size of the pool, id the id of x.
restoreOrderStep(st, x, size, id) ==
    LET slot == size - id - 1
    IN  IF slot < 0
        THEN [st EXCEPT !.signal = "out_of_range"]
        ELSE [pool |-> [st.pool EXCEPT ![slot + 1] = x],
              signal |-> IF st.pool[slot + 1] # NULL /\ st.signal = "ok"
                         THEN "assert" ELSE st.signal]

RECURSIVE restoreOrderEach(_, _, _, _)
\* A loop of clear that orders a pool, id the ids of the instances.
restoreOrderEach(st, s, size, id) ==
    IF s = <<>> THEN st
    ELSE restoreOrderEach(restoreOrderStep(st, Head(s), size, id[Head(s)]), Tail(s), size, id)

\* The branch of clear that restores the order of both pools.
restoreOrder(G) ==
    LET vs == Len(G.vertexPool)
        as == Len(G.arcPool)
        ov == restoreOrderEach([pool |-> [i \in 1..vs |-> NULL], signal |-> G.signal],
                               G.vertexPool, vs, [v \in VertexObjs |-> G.vertex[v].id])
        oa == restoreOrderEach([pool |-> [i \in 1..as |-> NULL], signal |-> ov.signal],
                               G.arcPool, as, [a \in ArcObjs |-> G.arc[a].id])
    IN  [G EXCEPT !.vertexPool = ov.pool, !.arcPool = oa.pool, !.signal = oa.signal]

\* The branch of clear that destroys both storages and empties the pools. The
\* bundles, allocated with new, are referenced by nothing afterwards.
emptyTheReserves(G) ==
    [G EXCEPT !.arcPool = <<>>, !.vertexPool = <<>>,
              !.arcStorage = 0, !.vertexStorage = 0, !.bundleHeap = 0,
              !.arc = [a \in ArcObjs |-> NoArc],
              !.vertex = [v \in VertexObjs |-> NoVertex]]

RECURSIVE clearVertices(_, _)
\* The loop of clear over the vertices.
clearVertices(G, s) ==
    IF s = <<>> THEN G
    ELSE clearVertices(clearVertex(G, Head(s)), Tail(s))

\* IncidenceListGraphImplementation::clear
clear(G, emptyReserves, restoreTheOrder) ==
    LET pooled(S) == clearVertices(S, S.vertices)
        reset(S) == [S EXCEPT !.vertices = <<>>, !.deactivatedVertices = <<>>,
                              !.numArcs = 0, !.nextVertexId = 0, !.nextArcId = 0]
        reserves(S) == IF emptyReserves THEN emptyTheReserves(S)
                       ELSE IF restoreTheOrder THEN restoreOrder(S)
                       ELSE S
    IN  reserves(reset(pooled(activateAll(G))))

\* ModifiableProperty::operator[] (assignment) and operator() (the value, or the
\* default value nullptr) of the maps of copyFrom, which are keyed by the artifact.
setValue(map, artifact, value) == (artifact :> value) @@ map
getValue(map, artifact) == IF artifact \in DOMAIN map THEN map[artifact] ELSE NULL
NoValues == << >>

RECURSIVE copyVertices(_, _)
\* for (auto *v : other.vertices): a vertex of this store for each, both maps set.
\* st holds this store and the four maps; names are not modelled.
copyVertices(st, s) ==
    IF s = <<>> THEN st
    ELSE LET cloned(r) ==
                 [st EXCEPT !.this = addVertex(r.g, r.ret),
                            !.otherToThisVertices = setValue(@, Head(s), r.ret),
                            !.thisToOtherVertices = setValue(@, r.ret, Head(s))]
         IN  copyVertices(cloned(recycleOrCreateIncidenceListVertex(st.this)), Tail(s))

\* The lambda of copyFrom for the arc a of other, whose image of the tail is tail.
copyArc(st, other, tail, a) ==
    LET head == getValue(st.otherToThisVertices, other.arc[a].head)
        cloned(r) ==
            [st EXCEPT !.this = addArc(r.g, r.ret, tail, head),
                       !.otherToThisArcs = setValue(@, a, r.ret),
                       !.thisToOtherArcs = setValue(@, r.ret, a)]
    IN  cloned(recycleOrCreateArc(st.this, tail, head))

RECURSIVE copyArcList(_, _, _, _)
\* v->mapOutgoingArcs(lambda) of copyFrom over the slots of one vertex of other.
copyArcList(st, other, tail, list) ==
    IF list = <<>> THEN st
    ELSE copyArcList(IF ~CheckValidityDefault \/ other.arc[Head(list)].valid
                     THEN copyArc(st, other, tail, Head(list)) ELSE st,
                     other, tail, Tail(list))

RECURSIVE copyArcsOfEach(_, _, _)
\* for (auto *v : other.vertices) v->mapOutgoingArcs(...)
copyArcsOfEach(st, other, s) ==
    IF s = <<>> THEN st
    ELSE copyArcsOfEach(copyArcList(st, other,
                                    getValue(st.otherToThisVertices, Head(s)),
                                    other.vertex[Head(s)].outgoingArcs
                                        \o other.vertex[Head(s)].outgoingMultiArcs),
                        other, Tail(s))

\* IncidenceListGraphImplementation::copyFrom: this store after the call and the
\* four maps, which the caller hands in empty.
copyFrom(G, other) ==
    LET start(S) == [this |-> S,
                     otherToThisVertices |-> NoValues, otherToThisArcs |-> NoValues,
                     thisToOtherVertices |-> NoValues, thisToOtherArcs |-> NoValues]
        reserved(S) ==
            reserveArcCapacity(
                reserveVertexCapacity(S, Len(other.vertices) + Len(other.vertexPool)),
                other.numArcs + Len(other.arcPool))
        arcs(st) == copyArcsOfEach(st, other, other.vertices)
    IN  arcs(copyVertices(start(reserved(clear(G, TRUE, FALSE))), other.vertices))

----------------------------------------------------------------------------
\* GraphTraversal and BreadthFirstSearch. The object is a record B; the callbacks
\* onVertexDiscovered and onArcDiscovered return false for the members of
\* vetoVertices and vetoArcs, the stop conditions hold for the members of stopVertices
\* and stopArcs, and each callback appends its argument to a list of its own. The
\* field stop is the local variable of resume as it was at the return, the field
\* explored lists the vertices whose arcs resume has gone through. While mapArcsUntil
\* is at work, curr is the vertex taken from the queue and arcs the arcs of curr that
\* mapArcsUntil has not yet come to.

\* No traversal object has been constructed.
NoTraversal == [name |-> "none"]

\* std::numeric_limits<size_type>::max(): the unsigned value that is one below 0.
INF == 0 - 1

\* boost::circular_buffer::push_back: a full buffer loses its front element.
pushBack(queue, capacity, x) ==
    IF capacity = 0 THEN queue
    ELSE IF Len(queue) = capacity THEN Append(Tail(queue), x)
    ELSE Append(queue, x)

\* The callbacks and stop conditions of GraphTraversal as set by the caller, and the
\* lists the callbacks write.
Callbacks(vetoVertices, vetoArcs, stopVertices, stopArcs) ==
    [vetoVertices |-> vetoVertices, vetoArcs |-> vetoArcs,
     stopVertices |-> stopVertices, stopArcs |-> stopArcs,
     verticesDiscovered |-> <<>>, arcsDiscovered |-> <<>>,
     treeArcs |-> <<>>, nonTreeArcs |-> <<>>,
     vertexStops |-> <<>>, arcStops |-> <<>>]

\* BreadthFirstSearch::BreadthFirstSearch, then setStartVertex, onReverseGraph,
\* onUndirectedGraph, orderAsValues and the callbacks.
BreadthFirstSearch(startVertex, undirected, reverse, order, callbacks) ==
    [name |-> "bfs", startVertex |-> startVertex,
     onUndirectedGraph |-> undirected, onReverseGraph |-> reverse,
     computePropertyValues |-> TRUE, computeOrder |-> order,
     maxBfsNumber |-> INF, maxLevel |-> INF,
     queue |-> <<>>, capacity |-> 0, discovered |-> {}, property |-> NoValues,
     stop |-> FALSE, explored |-> <<>>, running |-> FALSE, curr |-> NULL,
     arcs |-> <<>>, calls |-> callbacks]

\* BreadthFirstSearch::numVerticesReached
numVerticesReached(B) == IF B.maxBfsNumber = INF THEN 0 ELSE B.maxBfsNumber + 1
\* BreadthFirstSearch::deliver
deliver(B) == IF B.maxBfsNumber = INF THEN INF ELSE B.maxBfsNumber + 1

\* getPeer that is getHead in every mode.
getPeerAlwaysHead(B, G, a, curr) == G.arc[a].head

\* getPeer(a, curr) of resume
getPeer(B, G, a, curr) ==
    IF B.onUndirectedGraph
    THEN IF curr = G.arc[a].tail THEN G.arc[a].head ELSE G.arc[a].tail
    ELSE IF B.onReverseGraph THEN G.arc[a].tail ELSE G.arc[a].head

\* The arcs that mapArcsUntil(curr, ...) of resume goes through, in its order.
arcsToMap(B, G, curr) ==
    LET outgoing == G.vertex[curr].outgoingArcs \o G.vertex[curr].outgoingMultiArcs
        incoming == G.vertex[curr].incomingArcs \o G.vertex[curr].incomingMultiArcs
    IN  IF B.onUndirectedGraph THEN outgoing \o incoming
        ELSE IF B.onReverseGraph THEN incoming
        ELSE outgoing

\* The value of a peer that is the value of curr.
bfsValueOfCurr(B, curr) ==
    IF B.computeOrder THEN B.maxBfsNumber + 1 ELSE getValue(B.property, curr)

\* int v = computeOrder ? maxBfsNumber : property->getValue(curr) + 1, after
\* maxBfsNumber++
bfsValue(B, curr) ==
    IF B.computeOrder THEN B.maxBfsNumber + 1 ELSE getValue(B.property, curr) + 1

\* The peer of a tree arc is queued and marked, unless onVertexDiscovered vetoes.
bfsDiscover(B, peer) ==
    LET called == [B EXCEPT !.calls.verticesDiscovered = Append(@, peer)]
    IN  IF peer \in B.calls.vetoVertices THEN called
        ELSE [called EXCEPT !.queue = pushBack(@, B.capacity, peer),
                            !.discovered = @ \cup {peer}]

\* The lambda that resume hands to mapArcsUntil, for the arc a of curr.
bfsArc(B, G, curr, a) ==
    LET consider == a \notin B.calls.vetoArcs
        stops == a \in B.calls.stopArcs
        B1 == [B EXCEPT !.calls.arcsDiscovered = Append(@, a),
                        !.calls.arcStops = IF stops THEN Append(@, a) ELSE @,
                        !.stop = @ \/ stops]
        peer == getPeer(B, G, a, curr)
        numbered(S) ==
            [S EXCEPT !.maxBfsNumber = @ + 1,
                      !.property =
                          IF S.computePropertyValues
                          THEN setValue(@, peer, bfsValue(S, curr))
                          ELSE @,
                      !.calls.treeArcs = Append(@, a)]
    IN  IF stops \/ B.stop \/ ~consider THEN B1
        ELSE IF peer \notin B.discovered THEN bfsDiscover(numbered(B1), peer)
        ELSE [B1 EXCEPT !.calls.nonTreeArcs = Append(@, a)]

RECURSIVE bfsMapArcsAll(_, _, _, _)
\* The lambda over all the arcs of curr, without the break condition.
bfsMapArcsAll(B, G, curr, list) ==
    IF list = <<>> THEN B
    ELSE bfsMapArcsAll(IF ~CheckValidityDefault \/ G.arc[Head(list)].valid
                       THEN bfsArc(B, G, curr, Head(list)) ELSE B,
                       G, curr, Tail(list))

RECURSIVE bfsMapArcsUntil(_, _, _, _)
\* mapArcsUntil(curr, lambda, [&stop](const Arc *) { return stop; }) of resume over
\* the rest of the arcs of curr.
bfsMapArcsUntil(B, G, curr, list) ==
    IF list = <<>> \/ B.stop THEN B
    ELSE bfsMapArcsUntil(IF ~CheckValidityDefault \/ G.arc[Head(list)].valid
                         THEN bfsArc(B, G, curr, Head(list)) ELSE B,
                         G, curr, Tail(list))

\* The same with the last sentinel left in the queue.
bfsFrontKeepsSentinel(B, G) ==
    LET curr == Head(B.queue)
        popped == Tail(B.queue)
    IN  IF curr # NULL
        THEN IF curr \in B.calls.stopVertices
             THEN [B EXCEPT !.stop = TRUE, !.calls.vertexStops = Append(@, curr)]
             ELSE [B EXCEPT !.queue = popped, !.explored = Append(@, curr),
                            !.curr = IF arcsToMap(B, G, curr) = <<>> THEN NULL ELSE curr,
                            !.arcs = arcsToMap(B, G, curr)]
        ELSE IF popped # <<>>
        THEN [B EXCEPT !.queue = pushBack(popped, B.capacity, NULL), !.maxLevel = @ + 1]
        ELSE B

\* bfsFront that counts a level for the sentinel also when it leaves the queue empty.
bfsFrontCountsLastLevel(B, G) ==
    LET curr == Head(B.queue)
        popped == Tail(B.queue)
    IN  IF curr # NULL
        THEN IF curr \in B.calls.stopVertices
             THEN [B EXCEPT !.stop = TRUE, !.calls.vertexStops = Append(@, curr)]
             ELSE [B EXCEPT !.queue = popped, !.explored = Append(@, curr),
                            !.curr = IF arcsToMap(B, G, curr) = <<>> THEN NULL ELSE curr,
                            !.arcs = arcsToMap(B, G, curr)]
        ELSE IF popped # <<>>
        THEN [B EXCEPT !.queue = pushBack(popped, B.capacity, NULL), !.maxLevel = @ + 1]
        ELSE [B EXCEPT !.queue = popped, !.maxLevel = @ + 1]

\* One pass of the while loop of resume, entered with stop false and a queue that
\* is not empty, up to the call of mapArcsUntil.
bfsFront(B, G) ==
    LET curr == Head(B.queue)
        popped == Tail(B.queue)
    IN  IF curr # NULL
        THEN IF curr \in B.calls.stopVertices
             THEN [B EXCEPT !.stop = TRUE, !.calls.vertexStops = Append(@, curr)]
             ELSE [B EXCEPT !.queue = popped, !.explored = Append(@, curr),
                            !.curr = IF arcsToMap(B, G, curr) = <<>> THEN NULL ELSE curr,
                            !.arcs = arcsToMap(B, G, curr)]
        ELSE IF popped # <<>>
        THEN [B EXCEPT !.queue = pushBack(popped, B.capacity, NULL), !.maxLevel = @ + 1]
        ELSE [B EXCEPT !.queue = popped]

\* One pass of the while loop of resume.
bfsIteration(B, G) ==
    LET mapped(S) == bfsMapArcsUntil([S EXCEPT !.curr = NULL, !.arcs = <<>>],
                                     G, S.curr, S.arcs)
    IN  mapped(bfsFront(B, G))

\* mapArcsUntil at the next arc of curr: the break condition, the validity check and
\* the lambda.
bfsNextArc(B, G) ==
    LET a == Head(B.arcs)
        last == Len(B.arcs) = 1
        rest(S) == [S EXCEPT !.arcs = IF last THEN <<>> ELSE Tail(B.arcs),
                             !.curr = IF last THEN NULL ELSE B.curr]
    IN  IF B.stop THEN [B EXCEPT !.curr = NULL, !.arcs = <<>>]
        ELSE IF ~CheckValidityDefault \/ G.arc[a].valid
        THEN rest(bfsArc(B, G, B.curr, a))
        ELSE rest(B)

RECURSIVE bfsLoop(_, _)
\* while (!stop && !queue.empty())
bfsLoop(B, G) ==
    IF B.stop \/ B.queue = <<>> THEN B
    ELSE bfsLoop(bfsIteration(B, G), G)

\* BreadthFirstSearch::resume
resume(B, G) == bfsLoop([B EXCEPT !.stop = FALSE], G)

\* BreadthFirstSearch::run for a start vertex that has been set, up to the point where
\* it calls resume (running is true then) or returns without.
bfsEntered(B, G) ==
    LET capacity == graphSize(G)
        started ==
            [B EXCEPT !.maxBfsNumber = 0, !.maxLevel = 0, !.capacity = capacity,
                      !.queue = pushBack(pushBack(<<>>, capacity, B.startVertex),
                                         capacity, NULL),
                      !.discovered = {B.startVertex},
                      !.property = IF B.computePropertyValues
                                   THEN setValue(@, B.startVertex, 0) ELSE @,
                      !.calls.verticesDiscovered = Append(@, B.startVertex)]
    IN  IF B.startVertex \in B.calls.vetoVertices THEN started
        ELSE IF B.startVertex \in B.calls.stopVertices
        THEN [started EXCEPT !.calls.vertexStops = Append(@, B.startVertex)]
        ELSE [started EXCEPT !.running = TRUE]

\* BreadthFirstSearch::run
run(B, G) ==
    LET called(S) == IF S.running THEN resume([S EXCEPT !.running = FALSE], G) ELSE S
    IN  called(bfsEntered(B, G))

----------------------------------------------------------------------------
\* DepthFirstSearch. The object is a record D with the callbacks of GraphTraversal as
\* above; depth, discovered and stop are the locals of run that dfs gets by reference,
\* and stack holds the calls of dfs that have not returned, the innermost last, each
\* with its vertex and the arcs it has not yet handed to vm.
DFSResult(dfsNumber, lowNumber, parent) ==
    [dfsNumber |-> dfsNumber, lowNumber |-> lowNumber, parent |-> parent]

\* (*property)[v] read: the value of v, the default value for a vertex without one.
resultOf(map, v) == IF v \in DOMAIN map THEN map[v] ELSE DFSResult(0 - 1, 0 - 1, NULL)

DepthFirstSearch(startVertex, undirected, reverse, computeValues, callbacks) ==
    [name |-> "dfs", startVertex |-> startVertex, onUndirectedGraph |-> undirected,
     onReverseGraph |-> reverse, computePropertyValues |-> computeValues,
     maxDfsNumber |-> 0 - 1, property |-> NoValues,
     depth |-> 0, discovered |-> {}, stop |-> FALSE, stack |-> <<>>,
     running |-> FALSE, calls |-> callbacks]

dfsNumVerticesReached(D) == D.maxDfsNumber + 1
dfsDeliver(D) == D.maxDfsNumber + 1

\* cur->dfsNumber = depth; cur->lowNumber = depth
numberAndLow(D, v) ==
    setValue(D.property, v, [resultOf(D.property, v) EXCEPT !.dfsNumber = D.depth,
                                                           !.lowNumber = D.depth])

\* cur->lowNumber = low, if low is smaller.
foldLow(D, v, low) ==
    IF D.computePropertyValues /\ low < resultOf(D.property, v).lowNumber
    THEN [D EXCEPT !.property =
                       setValue(@, v, [resultOf(@, v) EXCEPT !.lowNumber = low])]
    ELSE D

\* dfs from its entry to the point where it returns early or starts on the arcs of v.
dfsEntered(D, v) ==
    LET entered ==
            [D EXCEPT !.discovered = @ \cup {v},
                      !.property = IF D.computePropertyValues
                                   THEN numberAndLow(D, v) ELSE @,
                      !.depth = @ + 1,
                      !.calls.verticesDiscovered = Append(@, v)]
        stops == v \in D.calls.stopVertices
    IN  IF v \in D.calls.vetoVertices THEN entered
        ELSE [entered EXCEPT !.stop = @ \/ stops,
                             !.calls.vertexStops = IF stops THEN Append(@, v) ELSE @]

\* dfs entered with D for v goes on to the arcs of v.
dfsGoesOn(D, v) ==
    v \notin D.calls.vetoVertices /\ ~D.stop /\ v \notin D.calls.stopVertices

\* The arcs that dfs maps for v: the outgoing and the incoming ones.
dfsOutgoing(D, G, v) ==
    IF D.onUndirectedGraph \/ ~D.onReverseGraph
    THEN G.vertex[v].outgoingArcs \o G.vertex[v].outgoingMultiArcs
    ELSE <<>>
dfsIncoming(D, G, v) ==
    IF D.onUndirectedGraph \/ D.onReverseGraph
    THEN G.vertex[v].incomingArcs \o G.vertex[v].incomingMultiArcs
    ELSE <<>>

\* The lambda vm of dfs for the arc a of v, with u the vertex at its other end, in
\* its parts: the two calls at its entry; the early return; the branch of the
\* undiscovered u up to the call of dfs, and after it; the branch of the discovered u.
vmCalled(D, a) ==
    LET stops == a \in D.calls.stopArcs
    IN  [D EXCEPT !.calls.arcsDiscovered = Append(@, a),
                  !.calls.arcStops = IF stops THEN Append(@, a) ELSE @,
                  !.stop = @ \/ stops]
vmSkips(D, a) == a \in D.calls.stopArcs \/ D.stop \/ a \in D.calls.vetoArcs
vmTreeArc(D, v, u, a) ==
    [D EXCEPT !.property = IF D.computePropertyValues
                           THEN setValue(@, u, DFSResult(0 - 1, 0 - 1, v))
                           ELSE @,
              !.calls.treeArcs = Append(@, a)]
vmReturned(D, v, u) ==
    IF D.stop THEN D ELSE foldLow(D, v, resultOf(D.property, u).lowNumber)
vmNonTreeArc(D, v, u, a) ==
    LET seen == [D EXCEPT !.calls.nonTreeArcs = Append(@, a)]
    IN  IF resultOf(D.property, v).parent # u
        THEN foldLow(seen, v, resultOf(D.property, u).dfsNumber)
        ELSE seen

RECURSIVE dfs(_, _, _)
RECURSIVE vm(_, _, _, _, _)
RECURSIVE dfsMapArcs(_, _, _, _, _)

\* DepthFirstSearch::dfs
dfs(D, G, v) ==
    IF dfsGoesOn(D, v)
    THEN dfsMapArcs(dfsMapArcs(dfsEntered(D, v), G, v, dfsOutgoing(D, G, v), TRUE),
                    G, v, dfsIncoming(D, G, v), FALSE)
    ELSE dfsEntered(D, v)

\* The lambda vm of dfs for the arc a of v, with u the vertex at its other end.
vm(D, G, v, u, a) ==
    IF vmSkips(D, a) THEN vmCalled(D, a)
    ELSE IF u \notin D.discovered
    THEN vmReturned(dfs(vmTreeArc(vmCalled(D, a), v, u, a), G, u), v, u)
    ELSE vmNonTreeArc(vmCalled(D, a), v, u, a)

\* The same with the head of the arc as the other end, whatever the direction.
dfsMapArcsToHead(D, G, v, list, out) ==
    IF list = <<>> THEN D
    ELSE dfsMapArcs(IF ~CheckValidityDefault \/ G.arc[Head(list)].valid
                    THEN vm(D, G, v, G.arc[Head(list)].head, Head(list))
                    ELSE D,
                    G, v, Tail(list), out)

\* diGraph->mapOutgoingArcs(v, ...) and diGraph->mapIncomingArcs(v, ...) of dfs over
\* the rest of the arcs of v: the other end of an outgoing arc is its head, that of
\* an incoming arc its tail. There is no break condition.
dfsMapArcs(D, G, v, list, out) ==
    IF list = <<>> THEN D
    ELSE dfsMapArcs(IF ~CheckValidityDefault \/ G.arc[Head(list)].valid
                    THEN vm(D, G, v,
                            IF out THEN G.arc[Head(list)].head ELSE G.arc[Head(list)].tail,
                            Head(list))
                    ELSE D,
                    G, v, Tail(list), out)

\* DepthFirstSearch::run for a start vertex that has been set.
dfsRun(D, G) ==
    LET searched(S) == [S EXCEPT !.maxDfsNumber = S.depth - 1]
    IN  searched(dfs([D EXCEPT !.depth = 0, !.discovered = {}, !.stop = FALSE],
                     G, D.startVertex))

----------------------------------------------------------------------------
\* The searches step by step: one pass of the while loop of resume, and one arc of
\* the innermost call of dfs or its return, at a time.

\* The call dfs(v, ...): its entry, and its place on the stack.
dfsCall(D, G, v) ==
    [dfsEntered(D, v) EXCEPT !.stack =
        Append(@, [v |-> v,
                   outgoing |-> IF dfsGoesOn(D, v) THEN dfsOutgoing(D, G, v) ELSE <<>>,
                   incoming |-> IF dfsGoesOn(D, v) THEN dfsIncoming(D, G, v) ELSE <<>>])]

\* mapOutgoingArcs / mapIncomingArcs for the arc a of v, with u at its other end: the
\* validity check, and vm up to the call of dfs for an undiscovered u.
dfsVisit(D, G, v, u, a) ==
    IF CheckValidityDefault /\ ~G.arc[a].valid THEN D
    ELSE IF vmSkips(D, a) THEN vmCalled(D, a)
    ELSE IF u \notin D.discovered THEN dfsCall(vmTreeArc(vmCalled(D, a), v, u, a), G, u)
    ELSE vmNonTreeArc(vmCalled(D, a), v, u, a)

\* The innermost call of dfs returns: to vm of the call before it, or to run.
dfsReturn(D) ==
    LET top == Len(D.stack)
        popped == [D EXCEPT !.stack = PopBack(@)]
    IN  IF top = 1 THEN popped
        ELSE vmReturned(popped, D.stack[top - 1].v, D.stack[top].v)

\* The next arc of the innermost call of dfs, or its return.
dfsStep(D, G) ==
    LET top == Len(D.stack)
        call == D.stack[top]
    IN  IF call.outgoing # <<>>
        THEN dfsVisit([D EXCEPT !.stack[top].outgoing = Tail(@)], G, call.v,
                      G.arc[Head(call.outgoing)].head, Head(call.outgoing))
        ELSE IF call.incoming # <<>>
        THEN dfsVisit([D EXCEPT !.stack[top].incoming = Tail(@)], G, call.v,
                      G.arc[Head(call.incoming)].tail, Head(call.incoming))
        ELSE dfsReturn(D)

----------------------------------------------------------------------------
\* The state after construction, and the public calls as actions.

NoSnap == [taken |-> FALSE]

\* What a caller can observe of the store G, kept for a comparison later on.
Observe(G) ==
    [taken |-> TRUE, vertices |-> G.vertices, deactivatedVertices |-> G.deactivatedVertices,
     numArcs |-> G.numArcs, vertex |-> G.vertex, arc |-> G.arc,
     vertexPool |-> G.vertexPool, arcPool |-> G.arcPool]

Call(op, args, ret) == [op |-> op, args |-> args, ret |-> ret]

\* The same, with the call that the observation precedes.
ObserveCall(G, call) ==
    [taken |-> TRUE, call |-> call, vertices |-> G.vertices,
     deactivatedVertices |-> G.deactivatedVertices,
     numArcs |-> G.numArcs, vertex |-> G.vertex, arc |-> G.arc,
     vertexPool |-> G.vertexPool, arcPool |-> G.arcPool]

\* IncidenceListGraphImplementation::IncidenceListGraphImplementation(DiGraph *handle)
Init ==
    /\ vertices = <<>>
    /\ deactivatedVertices = <<>>
    /\ vertexPool = <<>>
    /\ arcPool = <<>>
    /\ numArcs = 0
    /\ nextVertexId = 0
    /\ nextArcId = 0
    /\ vertexStorage = 0
    /\ arcStorage = 0
    /\ bundleHeap = 0
    /\ vertex = [v \in VertexObjs |-> NoVertex]
    /\ arc = [a \in ArcObjs |-> NoArc]
    /\ sharedOutIndexMap = [i \in ArcIds |-> NO_INDEX]
    /\ sharedInIndexMap = [i \in ArcIds |-> NO_INDEX]
    /\ signal = "ok"
    /\ lastOp = Call("init", <<>>, TRUE)
    /\ snap = NoSnap
    /\ traversal = NoTraversal

\* The live and the deactivated vertices of the store, and the attached arcs.
LiveVertices == Range(vertices)
DeactivatedVertices == Range(deactivatedVertices)
LiveOut(G, v) == G.vertex[v].outgoingArcs \o G.vertex[v].outgoingMultiArcs
LiveIn(G, v) == G.vertex[v].incomingArcs \o G.vertex[v].incomingMultiArcs
ShadowOut(G, v) ==
    G.vertex[v].deactivatedOutgoingArcs \o G.vertex[v].deactivatedOutgoingMultiArcs
ShadowIn(G, v) ==
    G.vertex[v].deactivatedIncomingArcs \o G.vertex[v].deactivatedIncomingMultiArcs

\* The call op(args) returns r.ret and leaves the store r.g.
Returns(r, op, args) ==
    /\ Becomes(r.g)
    /\ lastOp' = Call(op, args, r.ret)

\* addVertex(): a vertex from the pool or a new one is appended to the live vertices.
DoAddVertex(max) ==
    /\ signal = "ok"
    /\ vertexPool # <<>> \/ vertexStorage < max
    /\ LET r == recycleOrCreateIncidenceListVertex(Store)
       IN  /\ Becomes(addVertex(r.g, r.ret))
           /\ lastOp' = Call("addVertex", <<r.ret>>, TRUE)

\* removeVertex(v) for a live vertex v.
DoRemoveVertex(v) ==
    /\ signal = "ok"
    /\ v \in LiveVertices
    /\ Becomes(removeVertex(Store, v))
    /\ lastOp' = Call("removeVertex", <<v>>, TRUE)

\* addArc(tail, head): an arc from the pool or a new one is attached to live vertices.
DoAddArc(tail, head, max) ==
    /\ signal = "ok"
    /\ tail \in LiveVertices /\ head \in LiveVertices
    /\ arcPool # <<>> \/ arcStorage < max
    /\ LET r == recycleOrCreateArc(Store, tail, head)
       IN  /\ Becomes(addArc(r.g, r.ret, tail, head))
           /\ lastOp' = Call("addArc", <<r.ret, tail, head>>, TRUE)

\* removeArc(a) for an arc a held by a live list of its tail.
DoRemoveArc(a) ==
    /\ signal = "ok"
    /\ arc[a].tail \in LiveVertices
    /\ a \in Range(LiveOut(Store, arc[a].tail))
    /\ Becomes(removeArc(Store, a, arc[a].tail, arc[a].head))
    /\ lastOp' = Call("removeArc", <<a, arc[a].tail, arc[a].head>>, TRUE)

\* deactivateVertex(v) for a live vertex v.
DoDeactivateVertex(v) ==
    /\ signal = "ok"
    /\ v \in LiveVertices
    /\ Returns(deactivateVertex(Store, v), "deactivateVertex", <<v>>)

\* activateVertex(v, activateIncidentArcs) for a deactivated vertex v.
DoActivateVertex(v, activateArcs) ==
    /\ signal = "ok"
    /\ v \in DeactivatedVertices
    /\ Returns(activateVertex(Store, v, activateArcs), "activateVertex", <<v, activateArcs>>)

\* deactivateArc(a) for an arc a held by a live list of its tail, a live vertex.
DoDeactivateArc(a) ==
    /\ signal = "ok"
    /\ arc[a].tail \in LiveVertices
    /\ a \in Range(LiveOut(Store, arc[a].tail))
    /\ Returns(deactivateArc(Store, a, arc[a].tail, arc[a].head), "deactivateArc", <<a, arc[a].tail, arc[a].head>>)

\* activateArc(a) for an arc a held by a shadow list of its tail.
DoActivateArc(a) ==
    /\ signal = "ok"
    /\ arc[a].tail \in LiveVertices \cup DeactivatedVertices
    /\ a \in Range(ShadowOut(Store, arc[a].tail))
    /\ Returns(activateArc(Store, a, arc[a].tail, arc[a].head), "activateArc", <<a, arc[a].tail, arc[a].head>>)

\* activateAll()
DoActivateAll ==
    /\ signal = "ok"
    /\ Becomes(activateAll(Store))
    /\ lastOp' = Call("activateAll", <<>>, TRUE)

\* The orders in which an unordered_map may hand out its entries.
Orders == {o \in [1..MaxGraphVertices -> 1..MaxGraphVertices] :
              \A i, j \in 1..MaxGraphVertices : o[i] = o[j] => i = j}

\* bundleParallelArcs(), while the bound on the bundles allows it.
DoBundleParallelArcs(order, max) ==
    /\ signal = "ok"
    /\ bundleHeap + bundlesNeeded(Store) <= max
    /\ Becomes(bundleParallelArcs(Store, order))
    /\ lastOp' = Call("bundleParallelArcs", <<>>, TRUE)

\* unbundleParallelArcs()
DoUnbundleParallelArcs ==
    /\ signal = "ok"
    /\ Becomes(unbundleParallelArcs(Store))
    /\ lastOp' = Call("unbundleParallelArcs", <<>>, TRUE)

\* clear(emptyReserves, restoreOrder)
DoClear(emptyReserves, restoreTheOrder) ==
    /\ signal = "ok"
    /\ Becomes(clear(Store, emptyReserves, restoreTheOrder))
    /\ lastOp' = Call("clear", <<emptyReserves, restoreTheOrder>>, TRUE)

\* reserveVertexCapacity(n), while the storage may construct what the call asks for.
DoReserveVertexCapacity(n, max) ==
    /\ signal = "ok"
    /\ n <= Len(vertices) + Len(vertexPool) \/ vertexStorage + n - Len(vertices) <= max
    /\ Becomes(reserveVertexCapacity(Store, n))
    /\ lastOp' = Call("reserveVertexCapacity", <<n>>, TRUE)

\* reserveArcCapacity(n), while the storage may construct what the call asks for.
DoReserveArcCapacity(n, max) ==
    /\ signal = "ok"
    /\ withinArcCapacity(Store, n) \/ arcStorage + n - numArcs <= max
    /\ Becomes(reserveArcCapacity(Store, n))
    /\ lastOp' = Call("reserveArcCapacity", <<n>>, TRUE)

\* Nothing of store S is deactivated: no vertex, and no arc of a vertex.
NothingDeactivated(S) ==
    /\ S.deactivatedVertices = <<>>
    /\ \A v \in Range(S.vertices) : ShadowOut(S, v) = <<>> /\ ShadowIn(S, v) = <<>>

\* What a call leaves in snap: nothing ("none"), the store before the call ("before"),
\* the store before the first call of a run of calls that starts with nothing
\* deactivated and has not reached activateAll ("first"), or what snap holds ("keep").
Snapped(how) ==
    CASE how = "none" -> NoSnap
      [] how = "before" -> Observe(Store)
      [] how = "first" -> IF snap.taken /\ lastOp.op # "activateAll" THEN snap
                          ELSE IF NothingDeactivated(Store) THEN Observe(Store)
                          ELSE NoSnap
      [] how = "keep" -> snap

AddVertex(max) == DoAddVertex(max) /\ snap' = NoSnap
RemoveVertex(observed) ==
    \E v \in VertexObjs : DoRemoveVertex(v) /\ snap' = Snapped(observed)
AddArc(max) ==
    \E tail, head \in VertexObjs : DoAddArc(tail, head, max) /\ snap' = NoSnap
RemoveArc(observed) == \E a \in ArcObjs : DoRemoveArc(a) /\ snap' = Snapped(observed)
DeactivateVertex(observed) ==
    \E v \in VertexObjs : DoDeactivateVertex(v) /\ snap' = Snapped(observed)
DeactivateArc(observed) ==
    \E a \in ArcObjs : DoDeactivateArc(a) /\ snap' = Snapped(observed)
ActivateArc == \E a \in ArcObjs : DoActivateArc(a) /\ snap' = NoSnap
ActivateAll(observed) == DoActivateAll /\ snap' = Snapped(observed)
Clear(observed) ==
    \E emptyReserves, restoreTheOrder \in BOOLEAN :
        DoClear(emptyReserves, restoreTheOrder) /\ snap' = Snapped(observed)

\* A reservation is observed together with its argument.
ReserveVertexCapacity(most, max) ==
    \E n \in 0..most :
        /\ DoReserveVertexCapacity(n, max)
        /\ snap' = ObserveCall(Store, Call("reserveVertexCapacity", <<n>>, TRUE))
ReserveArcCapacity(most, max) ==
    \E n \in 0..most :
        /\ DoReserveArcCapacity(n, max)
        /\ snap' = ObserveCall(Store, Call("reserveArcCapacity", <<n>>, TRUE))

\* A creation keeps, of the observation of the reservation of its kind that only
\* creations of that kind have followed, the call.
Reserved(op) ==
    IF snap.taken /\ snap.call.op = op THEN [taken |-> TRUE, call |-> snap.call] ELSE NoSnap
AddVertexAfterReserve(max) == DoAddVertex(max) /\ snap' = Reserved("reserveVertexCapacity")
AddArcAfterReserve(max) ==
    \E tail, head \in VertexObjs :
        DoAddArc(tail, head, max) /\ snap' = Reserved("reserveArcCapacity")

\* deactivateArc(a, tail, head) for an arc a that the store has handed out, in
\* whatever lists it is, with its own tail and head.
DoDeactivateAnyArc(a) ==
    /\ signal = "ok"
    /\ arc[a].tail # NULL /\ arc[a].head # NULL
    /\ Returns(deactivateArc(Store, a, arc[a].tail, arc[a].head), "deactivateArc", <<a, arc[a].tail, arc[a].head>>)

\* activateArc(a, tail, head) for an arc a that the store has handed out, in
\* whatever lists it is, with its own tail and head.
DoActivateAnyArc(a) ==
    /\ signal = "ok"
    /\ arc[a].tail # NULL /\ arc[a].head # NULL
    /\ Returns(activateArc(Store, a, arc[a].tail, arc[a].head), "activateArc", <<a, arc[a].tail, arc[a].head>>)

DeactivateAnyArc == \E a \in ArcObjs : DoDeactivateAnyArc(a) /\ snap' = NoSnap
ActivateAnyArc == \E a \in ArcObjs : DoActivateAnyArc(a) /\ snap' = NoSnap

\* The calls v->addOutgoingSimpleArc(a), v->addOutgoingMultiArc(a),
\* v->addIncomingSimpleArc(a) and v->addIncomingMultiArc(a) on a live vertex v, for an
\* arc a that the store has handed out and that the list of v does not hold.
DoAddOutgoingSimpleArc(v, a) ==
    /\ signal = "ok"
    /\ v \in LiveVertices /\ ~isMultiArc(a) /\ arc[a].tail # NULL
    /\ a \notin Range(vertex[v].outgoingArcs)
    /\ Becomes(addOutgoingSimpleArc(Store, v, a))
    /\ lastOp' = Call("addOutgoingSimpleArc", <<v, a>>, TRUE)
DoAddOutgoingMultiArc(v, a) ==
    /\ signal = "ok"
    /\ v \in LiveVertices /\ isMultiArc(a) /\ arc[a].tail # NULL
    /\ a \notin Range(vertex[v].outgoingMultiArcs)
    /\ Becomes(addOutgoingMultiArc(Store, v, a))
    /\ lastOp' = Call("addOutgoingMultiArc", <<v, a>>, TRUE)
DoAddIncomingSimpleArc(v, a) ==
    /\ signal = "ok"
    /\ v \in LiveVertices /\ ~isMultiArc(a) /\ arc[a].head # NULL
    /\ a \notin Range(vertex[v].incomingArcs)
    /\ Becomes(addIncomingSimpleArc(Store, v, a))
    /\ lastOp' = Call("addIncomingSimpleArc", <<v, a>>, TRUE)
DoAddIncomingMultiArc(v, a) ==
    /\ signal = "ok"
    /\ v \in LiveVertices /\ isMultiArc(a) /\ arc[a].head # NULL
    /\ a \notin Range(vertex[v].incomingMultiArcs)
    /\ Becomes(addIncomingMultiArc(Store, v, a))
    /\ lastOp' = Call("addIncomingMultiArc", <<v, a>>, TRUE)

AddOutgoingSimpleArc ==
    \E v \in VertexObjs, a \in ArcObjs : DoAddOutgoingSimpleArc(v, a) /\ snap' = NoSnap
AddOutgoingMultiArc ==
    \E v \in VertexObjs, a \in ArcObjs : DoAddOutgoingMultiArc(v, a) /\ snap' = NoSnap
AddIncomingSimpleArc ==
    \E v \in VertexObjs, a \in ArcObjs : DoAddIncomingSimpleArc(v, a) /\ snap' = NoSnap
AddIncomingMultiArc ==
    \E v \in VertexObjs, a \in ArcObjs : DoAddIncomingMultiArc(v, a) /\ snap' = NoSnap

\* findArc(tail, head) for live vertices tail and head.
DoFindArc(tail, head) ==
    /\ signal = "ok"
    /\ tail \in LiveVertices /\ head \in LiveVertices
    /\ lastOp' = Call("findArc", <<tail, head>>, findArc(Store, tail, head))
    /\ UNCHANGED <<storeVars, traversal>>

FindArc == \E tail, head \in VertexObjs : DoFindArc(tail, head) /\ snap' = NoSnap

\* run() of a BreadthFirstSearch object constructed for the store, with a live start
\* vertex, the direction flags, the kind of values and the callbacks set.
DoRunBfs(startVertex, undirected, reverse, order, callbacks) ==
    /\ signal = "ok"
    /\ startVertex \in LiveVertices
    /\ traversal' = run(BreadthFirstSearch(startVertex, undirected, reverse, order,
                                           callbacks), Store)
    /\ lastOp' = Call("run", <<startVertex>>, TRUE)
    /\ UNCHANGED storeVars

\* resume() of the BreadthFirstSearch object after its run.
DoResumeBfs ==
    /\ signal = "ok"
    /\ traversal.name = "bfs"
    /\ traversal' = resume(traversal, Store)
    /\ lastOp' = Call("resume", <<>>, TRUE)
    /\ UNCHANGED storeVars

\* The graph is built before a traversal object is constructed for it.
BuildVertex(max) == traversal = NoTraversal /\ AddVertex(max)
BuildArc(max) == traversal = NoTraversal /\ AddArc(max)

\* A run without vetoes and stop conditions.
NoCallbacks == Callbacks({}, {}, {}, {})
RunBfs ==
    \E startVertex \in VertexObjs, undirected, reverse, order \in BOOLEAN :
        /\ traversal = NoTraversal
        /\ DoRunBfs(startVertex, undirected, reverse, order, NoCallbacks)
        /\ snap' = NoSnap

\* A run in order mode, forward or undirected, with a vertex stop condition that holds
\* for one live vertex (an arc stop condition that holds for one live arc).
RunBfsVertexStop ==
    \E startVertex \in VertexObjs, v \in VertexObjs, undirected \in BOOLEAN :
        /\ traversal = NoTraversal
        /\ v \in LiveVertices
        /\ DoRunBfs(startVertex, undirected, FALSE, TRUE, Callbacks({}, {}, {v}, {}))
        /\ snap' = NoSnap
RunBfsArcStop ==
    \E startVertex \in VertexObjs, a \in ArcObjs, undirected \in BOOLEAN :
        /\ traversal = NoTraversal
        /\ \E tail \in LiveVertices : a \in Range(LiveOut(Store, tail))
        /\ DoRunBfs(startVertex, undirected, FALSE, TRUE, Callbacks({}, {}, {}, {a}))
        /\ snap' = NoSnap

\* resume() right after run().
ResumeBfs == lastOp.op = "run" /\ DoResumeBfs /\ snap' = NoSnap

\* run() of a DepthFirstSearch object constructed for the store, with a live start
\* vertex, the direction flags and the callbacks set.
DoRunDfs(startVertex, undirected, reverse, computeValues, callbacks) ==
    /\ signal = "ok"
    /\ startVertex \in LiveVertices
    /\ traversal' = dfsRun(DepthFirstSearch(startVertex, undirected, reverse,
                                            computeValues, callbacks), Store)
    /\ lastOp' = Call("run", <<startVertex>>, TRUE)
    /\ UNCHANGED storeVars

\* A run without vetoes and stop conditions.
RunDfs ==
    \E startVertex \in VertexObjs, undirected, reverse, computeValues \in BOOLEAN :
        /\ traversal = NoTraversal
        /\ DoRunDfs(startVertex, undirected, reverse, computeValues, NoCallbacks)
        /\ snap' = NoSnap

\* run() of a BreadthFirstSearch object is called; it returns at once or calls resume.
DoBeginRunBfs(startVertex, undirected, reverse, order, callbacks) ==
    /\ signal = "ok"
    /\ startVertex \in LiveVertices
    /\ traversal' = bfsEntered(BreadthFirstSearch(startVertex, undirected, reverse,
                                                  order, callbacks), Store)
    /\ lastOp' = Call("run", <<startVertex>>, TRUE)
    /\ UNCHANGED storeVars

\* resume() is called after run() has returned.
BeginResumeBfs ==
    /\ signal = "ok"
    /\ traversal.name = "bfs" /\ ~traversal.running
    /\ lastOp.op = "run"
    /\ traversal' = [traversal EXCEPT !.stop = FALSE, !.running = TRUE]
    /\ lastOp' = Call("resume", <<>>, TRUE)
    /\ UNCHANGED <<storeVars, snap>>

\* The next arc of mapArcsUntil or, between two calls of it, the next pass of the
\* while loop of resume up to that call; and the return of resume.
StepBfs ==
    /\ traversal.name = "bfs" /\ traversal.running
    /\ IF traversal.arcs # <<>>
       THEN traversal' = bfsNextArc(traversal, Store)
       ELSE /\ ~traversal.stop /\ traversal.queue # <<>>
            /\ traversal' = bfsFront(traversal, Store)
    /\ UNCHANGED <<storeVars, lastOp, snap>>
ReturnBfs ==
    /\ traversal.name = "bfs" /\ traversal.running
    /\ traversal.arcs = <<>>
    /\ traversal.stop \/ traversal.queue = <<>>
    /\ traversal' = [traversal EXCEPT !.running = FALSE]
    /\ UNCHANGED <<storeVars, lastOp, snap>>

\* run() of a DepthFirstSearch object is called and calls dfs for the start vertex.
DoBeginRunDfs(startVertex, undirected, reverse, computeValues, callbacks) ==
    /\ signal = "ok"
    /\ startVertex \in LiveVertices
    /\ traversal' = dfsCall([DepthFirstSearch(startVertex, undirected, reverse,
                                              computeValues, callbacks)
                                 EXCEPT !.running = TRUE], Store, startVertex)
    /\ lastOp' = Call("run", <<startVertex>>, TRUE)
    /\ UNCHANGED storeVars

\* One arc of the innermost call of dfs or its return, and the return of run.
StepDfs ==
    /\ traversal.name = "dfs" /\ traversal.running
    /\ traversal.stack # <<>>
    /\ traversal' = dfsStep(traversal, Store)
    /\ UNCHANGED <<storeVars, lastOp, snap>>
ReturnDfs ==
    /\ traversal.name = "dfs" /\ traversal.running
    /\ traversal.stack = <<>>
    /\ traversal' = [traversal EXCEPT !.maxDfsNumber = traversal.depth - 1,
                                      !.running = FALSE]
    /\ UNCHANGED <<storeVars, lastOp, snap>>

\* The callbacks of a search that stops at the vertices of the set stopVertices.
StopsAt(stopVertices) == Callbacks({}, {}, stopVertices, {})

\* The searches are called in every direction mode, BFS in order mode, DFS with
\* values, without a stop condition or with one that holds at one vertex.
BeginRunBfs ==
    \E startVertex \in VertexObjs, undirected, reverse \in BOOLEAN,
       stopVertices \in {{}} \cup {{v} : v \in 1..MaxGraphVertices} :
        /\ traversal = NoTraversal
        /\ DoBeginRunBfs(startVertex, undirected, reverse, TRUE, StopsAt(stopVertices))
        /\ snap' = NoSnap
BeginRunDfs ==
    \E startVertex \in VertexObjs, undirected, reverse \in BOOLEAN,
       stopVertices \in {{}} \cup {{v} : v \in 1..MaxGraphVertices} :
        /\ traversal = NoTraversal
        /\ DoBeginRunDfs(startVertex, undirected, reverse, TRUE, StopsAt(stopVertices))
        /\ snap' = NoSnap

\* deactivateVertex(v) and activateVertex(v, activateIncidentArcs) for a vertex v that
\* the storage has constructed, live, deactivated or in the pool.
DoDeactivateAnyVertex(v) ==
    /\ signal = "ok"
    /\ v \in 1..vertexStorage
    /\ Returns(deactivateVertex(Store, v), "deactivateVertex", <<v>>)
DoActivateAnyVertex(v, activateArcs) ==
    /\ signal = "ok"
    /\ v \in 1..vertexStorage
    /\ Returns(activateVertex(Store, v, activateArcs), "activateVertex", <<v, activateArcs>>)
DeactivateAnyVertex == \E v \in VertexObjs : DoDeactivateAnyVertex(v) /\ snap' = NoSnap
ActivateAnyVertex ==
    \E v \in VertexObjs, activateArcs \in BOOLEAN :
        DoActivateAnyVertex(v, activateArcs) /\ snap' = NoSnap

\* A store right after its construction.
ConstructedStore ==
    [vertices |-> <<>>, deactivatedVertices |-> <<>>, vertexPool |-> <<>>,
     arcPool |-> <<>>, numArcs |-> 0, nextVertexId |-> 0, nextArcId |-> 0,
     vertexStorage |-> 0, arcStorage |-> 0, bundleHeap |-> 0,
     vertex |-> [v \in VertexObjs |-> NoVertex], arc |-> [a \in ArcObjs |-> NoArc],
     sharedOutIndexMap |-> [i \in ArcIds |-> NO_INDEX],
     sharedInIndexMap |-> [i \in ArcIds |-> NO_INDEX], signal |-> "ok"]

\* What copyFrom leaves: the store copied into and the four maps.
Copied(r) ==
    [taken |-> TRUE, this |-> r.this,
     otherToThisVertices |-> r.otherToThisVertices, otherToThisArcs |-> r.otherToThisArcs,
     thisToOtherVertices |-> r.thisToOtherVertices, thisToOtherArcs |-> r.thisToOtherArcs]

\* this.copyFrom(other, four empty maps), where other is the store of the variables,
\* which copyFrom takes by const reference. The capacity that copyFrom reserves for
\* the arcs is within the arcs of the model.
DoCopyFrom(this) ==
    /\ signal = "ok"
    /\ numArcs + Len(arcPool) \in 0..MaxArcs
    /\ snap' = Copied(copyFrom(this, Store))
    /\ lastOp' = Call("copyFrom", <<>>, TRUE)
    /\ UNCHANGED <<storeVars, traversal>>

\* copyFrom into a store just constructed, or into the store of the last copy.
CopyFrom ==
    \E this \in {ConstructedStore} \cup (IF snap.taken THEN {snap.this} ELSE {}) :
        DoCopyFrom(this)

BundleParallelArcs(how, max) ==
    \E order \in Orders : DoBundleParallelArcs(order, max) /\ snap' = Snapped(how)

\* bundleParallelArcs() on a store without deactivated vertices and arcs.
BundleWhileAllActive ==
    NothingDeactivated(Store) /\ BundleParallelArcs("none", MaxBundlesSmall)

\* unbundleParallelArcs() right after bundleParallelArcs() keeps the store observed
\* before the two calls.
UnbundleParallelArcs ==
    /\ DoUnbundleParallelArcs
    /\ snap' = IF lastOp.op = "bundleParallelArcs" THEN snap ELSE NoSnap

\* activateVertex(v, true) right after deactivateVertex(v) keeps the store observed
\* before the two calls.
ActivateVertex ==
    \E v \in VertexObjs, activateArcs \in BOOLEAN :
        /\ DoActivateVertex(v, activateArcs)
        /\ snap' = IF lastOp.op = "deactivateVertex" /\ lastOp.args = <<v>> /\ activateArcs
                   THEN snap ELSE NoSnap

----------------------------------------------------------------------------
\* The store under addVertex and removeVertex.
NextVertices == AddVertex(MaxVertices) \/ RemoveVertex("none")
SpecVertices == Init /\ [][NextVertices]_vars

\* The store under addVertex, addArc and removeArc.
NextArcs == AddVertex(MaxGraphVertices) \/ AddArc(MaxArcsSmall) \/ RemoveArc("before")
SpecArcs == Init /\ [][NextArcs]_vars

\* The store under addVertex, removeVertex, addArc and removeArc.
NextStore ==
    AddVertex(MaxGraphVertices) \/ RemoveVertex("none") \/ AddArc(MaxArcs) \/ RemoveArc("none")
SpecStore == Init /\ [][NextStore]_vars

\* The store under addVertex, addArc, deactivateArc and removeVertex.
NextRemoveVertex ==
    \/ AddVertex(MaxGraphVertices) \/ AddArc(MaxArcsSmall) \/ DeactivateArc("none")
    \/ RemoveVertex("before")
SpecRemoveVertex == Init /\ [][NextRemoveVertex]_vars

\* The store under addVertex, addArc and the activation and deactivation of single
\* vertices and arcs.
NextActivation ==
    \/ AddVertex(MaxGraphVertices) \/ AddArc(MaxArcsSmall)
    \/ DeactivateArc("none")
    \/ DeactivateVertex("before") \/ ActivateVertex
SpecActivation == Init /\ [][NextActivation]_vars

\* The store under addVertex and addArc, then deactivateVertex and deactivateArc from
\* a store with nothing deactivated, then activateAll.
NextActivateAll ==
    \/ AddVertex(MaxGraphVertices) \/ AddArc(MaxArcsSmall)
    \/ DeactivateVertex("first") \/ DeactivateArc("first")
    \/ ActivateAll("keep")
SpecActivateAll == Init /\ [][NextActivateAll]_vars

\* The store under addVertex, addArc, bundleParallelArcs and unbundleParallelArcs.
NextBundle ==
    \/ AddVertex(MaxGraphVertices) \/ AddArc(MaxArcs)
    \/ BundleParallelArcs("before", MaxBundles) \/ UnbundleParallelArcs
SpecBundle == Init /\ [][NextBundle]_vars

\* The store under addVertex, addArc, bundleParallelArcs and clear.
NextClear ==
    \/ AddVertex(MaxGraphVertices) \/ AddArc(MaxArcsSmall)
    \/ BundleParallelArcs("none", MaxBundlesSmall) \/ Clear("before")
SpecClear == Init /\ [][NextClear]_vars

\* The store under the reservations, the creations and the removals.
NextReserve ==
    \/ ReserveVertexCapacity(MaxGraphVertices, MaxGraphVertices)
    \/ ReserveArcCapacity(MaxArcsSmall, MaxArcs)
    \/ AddVertexAfterReserve(MaxGraphVertices) \/ AddArcAfterReserve(MaxArcsSmall)
    \/ RemoveVertex("none") \/ RemoveArc("none")
SpecReserve == Init /\ [][NextReserve]_vars

\* A second store under copyFrom, from the store under addVertex, addArc, removeArc,
\* bundleParallelArcs and unbundleParallelArcs.
NextCopy ==
    \/ AddVertex(MaxGraphVertices) \/ AddArc(MaxArcsSmall) \/ RemoveArc("none")
    \/ BundleParallelArcs("none", MaxBundlesSmall) \/ UnbundleParallelArcs
    \/ CopyFrom
SpecCopy == Init /\ [][NextCopy]_vars

\* The store under addVertex, addArc, removeArc, bundleParallelArcs and findArc.
NextFind ==
    \/ AddVertex(MaxGraphVertices) \/ AddArc(MaxArcs) \/ RemoveArc("none")
    \/ BundleParallelArcs("none", MaxBundlesSmall)
    \/ FindArc
SpecFind == Init /\ [][NextFind]_vars

\* The store under addVertex, addArc, bundleParallelArcs, and deactivateArc and
\* activateArc for arcs in any state.
NextArcActivation ==
    \/ AddVertex(MaxGraphVertices) \/ AddArc(MaxArcsSmall)
    \/ BundleParallelArcs("none", MaxBundlesSmall)
    \/ DeactivateAnyArc \/ ActivateAnyArc
SpecArcActivation == Init /\ [][NextArcActivation]_vars

\* The store under addVertex, addArc and bundleParallelArcs, and its vertices under
\* addOutgoing*Arc and addIncoming*Arc.
NextEndpoints ==
    \/ AddVertex(MaxGraphVertices) \/ AddArc(MaxArcsSmall)
    \/ BundleParallelArcs("none", MaxBundlesSmall)
    \/ AddOutgoingSimpleArc \/ AddOutgoingMultiArc
    \/ AddIncomingSimpleArc \/ AddIncomingMultiArc
SpecEndpoints == Init /\ [][NextEndpoints]_vars

\* A graph built with addVertex and addArc, then a breadth-first search on it.
NextBfs == BuildVertex(MaxVertices) \/ BuildArc(MaxArcs) \/ RunBfs
SpecBfs == Init /\ [][NextBfs]_vars

\* The same with a vertex stop condition, and with an arc stop condition.
NextBfsVertexStop ==
    BuildVertex(MaxVertices) \/ BuildArc(MaxArcs) \/ RunBfsVertexStop \/ ResumeBfs
SpecBfsVertexStop == Init /\ [][NextBfsVertexStop]_vars
NextBfsArcStop ==
    BuildVertex(MaxVertices) \/ BuildArc(MaxArcs) \/ RunBfsArcStop \/ ResumeBfs
SpecBfsArcStop == Init /\ [][NextBfsArcStop]_vars

\* Graphs built with addVertex and addArc, and a depth-first search run on them.
NextDfs == BuildVertex(MaxVertices) \/ BuildArc(MaxArcs) \/ RunDfs
SpecDfs == Init /\ [][NextDfs]_vars

\* The searches step by step on graphs built with addVertex and addArc; a search that
\* has been called goes on until it returns.
NextSearchSteps ==
    \/ BuildVertex(MaxGraphVertices) \/ BuildArc(MaxArcs)
    \/ BeginRunBfs \/ BeginResumeBfs \/ StepBfs \/ ReturnBfs
    \/ BeginRunDfs \/ StepDfs \/ ReturnDfs
SpecSearchSteps ==
    /\ Init /\ [][NextSearchSteps]_vars
    /\ WF_vars(StepBfs) /\ WF_vars(ReturnBfs)
    /\ WF_vars(StepDfs) /\ WF_vars(ReturnDfs)

\* The store under addVertex, removeVertex, deactivateVertex and activateVertex.
NextVertexActivation ==
    \/ AddVertex(MaxVertices) \/ RemoveVertex("none")
    \/ DeactivateAnyVertex \/ ActivateAnyVertex
SpecVertexActivation == Init /\ [][NextVertexActivation]_vars

\* The store under addVertex and addArc, bundleParallelArcs while nothing is
\* deactivated, and the deactivation and activation of vertices, arcs and bundles.
NextShadow ==
    \/ AddVertex(MaxGraphVertices) \/ AddArc(MaxArcs)
    \/ BundleWhileAllActive
    \/ DeactivateArc("none") \/ ActivateArc
    \/ DeactivateVertex("none") \/ ActivateVertex
SpecShadow == Init /\ [][NextShadow]_vars

----------------------------------------------------------------------------
\* C1: after any sequence of addVertex and removeVertex calls the live vertices are
\* dense: the vertex at position i records index i, and no vertex is at two positions.
C1_LiveVerticesDense ==
    /\ \A i \in 1..Len(vertices) : vertex[vertices[i]].index = i - 1
    /\ \A i, j \in 1..Len(vertices) : vertices[i] = vertices[j] => i = j

\* removeVertex has closed a gap: the removed vertex was not the last one, and its
\* stale index is the position of the vertex moved into its place.
C1_Witness ==
    /\ lastOp.op = "removeVertex"
    /\ vertex[lastOp.args[1]].index < Len(vertices)

\* The recorded out-index and in-index of an arc.
recordedOutIndex(a) == sharedOutIndexMap[arc[a].id]
recordedInIndex(a) == sharedInIndexMap[arc[a].id]

\* The recorded index idx of every arc of list is its position, and only that.
IndexIsPosition(list, idx(_)) ==
    \A a \in Range(list) : \A i \in (0..(Len(list) - 1)) \cup {idx(a)} :
        idx(a) = i <=> (i < Len(list) /\ list[i + 1] = a)

\* The position of a in list, counted from 0.
PositionIn(list, a) == CHOOSE i \in 0..(Len(list) - 1) : list[i + 1] = a

\* new is old after the swap-removal of a, with the indices idx recorded for it.
SwapRemoved(old, new, idx(_), a) ==
    /\ new = PopBack([old EXCEPT ![PositionIn(old, a) + 1] = Last(old)])
    /\ Last(old) # a => idx(Last(old)) = PositionIn(old, a)
    /\ idx(a) = NO_INDEX

\* C2: after any sequence of addArc and removeArc calls the recorded out-index (in-index)
\* of an attached arc is i iff the outgoing (incoming) list of its vertex holds the arc
\* at position i; removeArc moves the last element of the list into the vacated slot,
\* records the new index of that element and resets the index of the removed arc to the
\* absent sentinel.
C2_IndexMapsMatchLists ==
    /\ \A v \in LiveVertices :
        /\ IndexIsPosition(vertex[v].outgoingArcs, recordedOutIndex)
        /\ IndexIsPosition(vertex[v].incomingArcs, recordedInIndex)
    /\ lastOp.op = "removeArc" =>
        LET a == lastOp.args[1]
            tail == lastOp.args[2]
            head == lastOp.args[3]
        IN  /\ SwapRemoved(snap.vertex[tail].outgoingArcs, vertex[tail].outgoingArcs,
                           recordedOutIndex, a)
            /\ SwapRemoved(snap.vertex[head].incomingArcs, vertex[head].incomingArcs,
                           recordedInIndex, a)

\* removeArc has removed the first of at least two arcs of its tail's outgoing list,
\* and not the last arc of its head's incoming list.
C2_Witness ==
    /\ lastOp.op = "removeArc"
    /\ Len(snap.vertex[lastOp.args[2]].outgoingArcs) >= 2
    /\ snap.vertex[lastOp.args[2]].outgoingArcs[1] = lastOp.args[1]
    /\ Last(snap.vertex[lastOp.args[3]].incomingArcs) # lastOp.args[1]

\* What C9 asks of a step: addVertex and addArc construct an object only when their
\* pool is empty, and otherwise take the most recently pooled object, valid again,
\* with the identity it had, leaving the storage and the id counter alone.
C9_Step ==
    /\ lastOp'.op = "addVertex" =>
        LET v == lastOp'.args[1]
        IN  IF vertexPool = <<>>
            THEN /\ vertexStorage' = vertexStorage + 1
                 /\ v = vertexStorage'
                 /\ vertex'[v].id = nextVertexId
            ELSE /\ v = Last(vertexPool)
                 /\ vertexPool' = PopBack(vertexPool)
                 /\ vertex'[v].valid
                 /\ vertex'[v].id = vertex[v].id
                 /\ vertexStorage' = vertexStorage
                 /\ nextVertexId' = nextVertexId
    /\ lastOp'.op = "addArc" =>
        LET a == lastOp'.args[1]
        IN  IF arcPool = <<>>
            THEN /\ arcStorage' = arcStorage + 1
                 /\ a = arcStorage'
                 /\ arc'[a].id = nextArcId
            ELSE /\ a = Last(arcPool)
                 /\ arcPool' = PopBack(arcPool)
                 /\ arc'[a].valid
                 /\ arc'[a].id = arc[a].id
                 /\ arcStorage' = arcStorage
                 /\ nextArcId' = nextArcId

\* C9: recycleOrCreateIncidenceListVertex and recycleOrCreateArc construct a new object
\* only when the pool is empty; otherwise they pop the most recently pooled instance,
\* mark it valid, keep its identity and leave the id counter untouched.
C9_PoolServedBeforeConstruction == [][C9_Step]_vars

\* addVertex has recycled a vertex from a pool of at least two, while arcs are pooled.
C9_Witness ==
    /\ lastOp.op = "addVertex"
    /\ vertexPool # <<>>
    /\ vertex[lastOp.args[1]].valid
    /\ arcPool # <<>>

\* The arcs that the adjacency of vertex w holds in store S, live or deactivated,
\* outgoing or incoming.
Adjacency(S, w) ==
    LET x == S.vertex[w]
    IN  Range(x.outgoingArcs) \cup Range(x.incomingArcs)
        \cup Range(x.outgoingMultiArcs) \cup Range(x.incomingMultiArcs)
        \cup Range(x.deactivatedOutgoingArcs) \cup Range(x.deactivatedIncomingArcs)
        \cup Range(x.deactivatedOutgoingMultiArcs)
        \cup Range(x.deactivatedIncomingMultiArcs)

\* The vertices of store S, live or deactivated.
VerticesOf(S) == Range(S.vertices) \cup Range(S.deactivatedVertices)

\* The arcs of store S that are incident to v, each once.
IncidentArcs(S, v) ==
    {a \in UNION {Adjacency(S, w) : w \in VerticesOf(S)} :
        S.arc[a].tail = v \/ S.arc[a].head = v}

\* C3: after removeVertex(v) on a live vertex in any reachable state no other vertex's
\* adjacency, live or deactivated, holds an arc whose tail or head is v; every arc that
\* was incident to v is hibernated and was pushed to the arc pool exactly once; and the
\* arc counter has decreased by the number of those arcs.
C3_RemoveVertexDetachesIncidentArcs ==
    lastOp.op = "removeVertex" =>
        LET v == lastOp.args[1]
            incident == IncidentArcs(snap, v)
        IN  /\ \A w \in VerticesOf(Store) \ {v} : \A a \in Adjacency(Store, w) :
                    arc[a].tail # v /\ arc[a].head # v
            /\ \A a \in incident :
                    /\ ~arc[a].valid
                    /\ Count(arcPool, a) = Count(snap.arcPool, a) + 1
            /\ numArcs = snap.numArcs - Cardinality(incident)

\* The same for a vertex none of whose incident arcs is in a shadow list.
C3_RemoveVertexDetachesLiveArcs ==
    (/\ lastOp.op = "removeVertex"
     /\ \A w \in VerticesOf(snap) : \A a \in IncidentArcs(snap, lastOp.args[1]) :
            a \notin Range(ShadowOut(snap, w)) \cup Range(ShadowIn(snap, w)))
        => C3_RemoveVertexDetachesIncidentArcs

\* removeVertex(v) was called while another vertex held a deactivated arc to v.
C3_Witness ==
    /\ lastOp.op = "removeVertex"
    /\ \E w \in VerticesOf(snap) \ {lastOp.args[1]} :
          \E a \in Range(ShadowOut(snap, w)) : snap.arc[a].head = lastOp.args[1]

\* The live outgoing and the live incoming arcs of vertex w in store S, as sets.
LiveOutSet(S, w) == Range(S.vertex[w].outgoingArcs) \cup Range(S.vertex[w].outgoingMultiArcs)
LiveInSet(S, w) == Range(S.vertex[w].incomingArcs) \cup Range(S.vertex[w].incomingMultiArcs)

\* activateVertex(v, true) was called right after deactivateVertex(v).
RoundTripOfVertex ==
    lastOp.op = "activateVertex" /\ lastOp.args[2] /\ snap.taken

\* C4: for a live vertex v in any reachable state, deactivateVertex(v) immediately
\* followed by activateVertex(v, true) both return true, and afterwards every vertex
\* has the same set of live outgoing arcs and the same set of live incoming arcs as
\* before the two calls.
C4_DeactivateActivateRoundTrip ==
    /\ lastOp.op = "deactivateVertex" => lastOp.ret
    /\ RoundTripOfVertex =>
        /\ lastOp.ret
        /\ \A w \in VerticesOf(snap) :
            /\ LiveOutSet(Store, w) = LiveOutSet(snap, w)
            /\ LiveInSet(Store, w) = LiveInSet(snap, w)

\* The round trip was made on a vertex with a live arc to or from another vertex.
C4_Witness ==
    /\ RoundTripOfVertex
    /\ \E a \in LiveOutSet(snap, lastOp.args[1]) \cup LiveInSet(snap, lastOp.args[1]) :
          snap.arc[a].tail # snap.arc[a].head

\* activateAll() was called after deactivations that began with nothing deactivated.
ActivateAllAfterDeactivations == lastOp.op = "activateAll" /\ snap.taken

\* C5: starting with nothing deactivated, after any sequence of deactivateVertex and
\* deactivateArc calls followed by activateAll() the deactivated vertices and every
\* shadow list are empty, and the set of live vertices, the live outgoing and incoming
\* arc sets of each vertex, the arc counter and the validity flag of every vertex and
\* arc are those of the state before the first deactivation.
C5_ActivateAllRestores ==
    ActivateAllAfterDeactivations =>
        /\ NothingDeactivated(Store)
        /\ LiveVertices = Range(snap.vertices)
        /\ \A w \in VerticesOf(snap) :
            /\ LiveOutSet(Store, w) = LiveOutSet(snap, w)
            /\ LiveInSet(Store, w) = LiveInSet(snap, w)
            /\ vertex[w].valid = snap.vertex[w].valid
        /\ getNumArcs(Store, TRUE) = snap.numArcs
        /\ \A a \in ArcObjs : arc[a].valid = snap.arc[a].valid

\* activateAll() was called after a vertex and an arc of a live vertex were deactivated.
C5_Witness ==
    /\ ActivateAllAfterDeactivations
    /\ Len(vertices) > Len(snap.vertices) - Cardinality(VerticesOf(snap))
    /\ numArcs < snap.numArcs

\* Store S is a graph of simple arcs: no list of a vertex holds a bundle.
GraphOfSimpleArcs(S) ==
    \A w \in VerticesOf(S) :
        /\ S.vertex[w].outgoingMultiArcs = <<>>
        /\ S.vertex[w].incomingMultiArcs = <<>>
        /\ S.vertex[w].deactivatedOutgoingMultiArcs = <<>>
        /\ S.vertex[w].deactivatedIncomingMultiArcs = <<>>

\* unbundleParallelArcs() was called right after bundleParallelArcs() on a graph of
\* simple arcs.
RoundTripOfBundling ==
    lastOp.op = "unbundleParallelArcs" /\ snap.taken /\ GraphOfSimpleArcs(snap)

\* The lists s and t hold the same arcs, each as often.
SameMultiset(s, t) == \A a \in ArcObjs : Count(s, a) = Count(t, a)

\* C6: for any graph of simple arcs, bundleParallelArcs() followed by
\* unbundleParallelArcs() leaves every vertex with the multiset of outgoing and of
\* incoming simple arcs it had before bundling, the same arcs with the tail and head
\* they had, none lost or duplicated, and no bundle slot in any list.
C6_BundleUnbundleRoundTrip ==
    RoundTripOfBundling =>
        /\ vertices = snap.vertices
        /\ \A w \in VerticesOf(snap) :
            /\ SameMultiset(vertex[w].outgoingArcs, snap.vertex[w].outgoingArcs)
            /\ SameMultiset(vertex[w].incomingArcs, snap.vertex[w].incomingArcs)
            /\ \A i \in 1..Len(vertex[w].outgoingArcs) :
                    Count(vertex[w].outgoingArcs, vertex[w].outgoingArcs[i]) = 1
            /\ \A a \in Range(vertex[w].outgoingArcs) \cup Range(vertex[w].incomingArcs) :
                    arc[a].tail = snap.arc[a].tail /\ arc[a].head = snap.arc[a].head
        /\ GraphOfSimpleArcs(Store)

\* The round trip was made on a graph with parallel arcs and a single arc.
C6_Witness ==
    /\ RoundTripOfBundling
    /\ \E t, h \in VerticesOf(snap) :
          Cardinality({a \in Range(snap.vertex[t].outgoingArcs) : snap.arc[a].head = h}) >= 2
    /\ \E t, h \in VerticesOf(snap) :
          Cardinality({a \in Range(snap.vertex[t].outgoingArcs) : snap.arc[a].head = h}) = 1

\* The outgoing arcs of t that lead to h in store S: the simple arcs of t's outgoing
\* list and the members of the bundles of t's outgoing multi-arc list.
ArcsTo(S, t, h) ==
    {a \in Range(S.vertex[t].outgoingArcs) : S.arc[a].head = h}
    \cup UNION {Range(S.arc[b].arcs) :
                   b \in {m \in Range(S.vertex[t].outgoingMultiArcs) : S.arc[m].head = h}}

\* The bundles in list whose members are exactly the arcs K.
BundleSlotsOf(list, K) == {i \in 1..Len(list) : Range(arc[list[i]].arcs) = K}

ArcsOf(S) ==
    UNION {Range(S.vertex[w].outgoingArcs) \cup Range(S.vertex[w].deactivatedOutgoingArcs)
           \cup UNION {Range(S.arc[b].arcs) :
                          b \in Range(S.vertex[w].outgoingMultiArcs)
                                \cup Range(S.vertex[w].deactivatedOutgoingMultiArcs)}
           : w \in VerticesOf(S)}

\* clear(emptyReserves, restoreOrder) was the last call.
Cleared(emptyReserves, restoreTheOrder) ==
    lastOp.op = "clear" /\ lastOp.args = <<emptyReserves, restoreTheOrder>>

\* C8: after clear(false, false) in any reachable state the vertex pool has grown by
\* the number of vertices, live and deactivated, that existed before, and the arc pool
\* by the number of arcs, live and deactivated, every member of a bundle counted; the
\* live and the deactivated vertex sequences are empty and the arc counter is 0.
C8_ClearPoolsEverything ==
    Cleared(FALSE, FALSE) =>
        /\ Len(vertexPool) = Len(snap.vertexPool) + Cardinality(VerticesOf(snap))
        /\ Len(arcPool) = Len(snap.arcPool) + Cardinality(ArcsOf(snap))
        /\ vertices = <<>>
        /\ deactivatedVertices = <<>>
        /\ numArcs = 0

\* The same for a store in which no list holds a bundle.
C8_ClearPoolsSimpleArcs ==
    (Cleared(FALSE, FALSE) /\ GraphOfSimpleArcs(snap)) => C8_ClearPoolsEverything

\* clear(false, false) was called on a store that held a bundle of parallel arcs.
C8_Witness ==
    /\ Cleared(FALSE, FALSE)
    /\ \E w \in VerticesOf(snap) : \E b \in Range(snap.vertex[w].outgoingMultiArcs) :
          Len(snap.arc[b].arcs) >= 2

\* The identities of the instances of pool, id(x) the identity of instance x, are
\* Len(pool) - 1 down to 0.
DescendingIds(pool, id(_)) == \A i \in 1..Len(pool) : id(pool[i]) = Len(pool) - i

\* C10: after clear(false, true) in any reachable state both pools are ordered by
\* descending identity, so that the next k addVertex calls, k the size of the vertex
\* pool, are served with the identities 0, 1, ..., k-1 in that order, and likewise for
\* arcs; the reordering never meets two pooled instances of one identity nor an
\* identity that is not below the size of the pool.
C10_ClearRestoresOrder ==
    Cleared(FALSE, TRUE) =>
        /\ signal = "ok"
        /\ DescendingIds(vertexPool, LAMBDA v : vertex[v].id)
        /\ DescendingIds(arcPool, LAMBDA a : arc[a].id)

\* clear(false, true) was called with two vertices to pool and a vertex pooled before.
C10_Witness ==
    /\ Cleared(FALSE, TRUE)
    /\ Len(vertexPool) >= 2
    /\ snap.vertexPool # <<>>

----------------------------------------------------------------------------
\* The lists of vertex w in what was observed of a store.
ListsOf(x) ==
    <<x.outgoingArcs, x.incomingArcs, x.outgoingMultiArcs, x.incomingMultiArcs,
      x.deactivatedOutgoingArcs, x.deactivatedIncomingArcs,
      x.deactivatedOutgoingMultiArcs, x.deactivatedIncomingMultiArcs>>

\* The reservation that was just called changed neither the live vertices, nor a list
\* of a vertex of the graph, nor the arc counter.
ReservationKeepsGraph ==
    /\ vertices = snap.vertices
    /\ deactivatedVertices = snap.deactivatedVertices
    /\ \A w \in Range(vertices) \cup Range(deactivatedVertices) :
          ListsOf(vertex[w]) = ListsOf(snap.vertex[w])
    /\ numArcs = snap.numArcs

\* Every pooled vertex is invalid and has empty lists; every pooled arc is invalid.
PooledVerticesHibernated ==
    \A v \in Range(vertexPool) :
        ~vertex[v].valid /\ \A i \in 1..8 : ListsOf(vertex[v])[i] = <<>>
PooledArcsHibernated == \A a \in Range(arcPool) : ~arc[a].valid

\* What holds right after a reservation.
AfterReservation ==
    /\ lastOp.op = "reserveVertexCapacity" =>
          /\ Len(vertices) + Len(vertexPool) >= lastOp.args[1]
          /\ PooledVerticesHibernated
          /\ ReservationKeepsGraph
    /\ lastOp.op = "reserveArcCapacity" =>
          /\ numArcs + Len(arcPool) >= lastOp.args[1]
          /\ PooledArcsHibernated
          /\ ReservationKeepsGraph

\* A creation that only creations of its kind separate from the reservation, and that
\* starts below the reserved count, takes its instance from the pool.
CreationAfterReservation ==
    /\ (/\ lastOp'.op = "addVertex" /\ snap'.taken
        /\ snap'.call.op = "reserveVertexCapacity"
        /\ Len(vertices) < snap'.call.args[1])
       => vertexPool # <<>> /\ vertexStorage' = vertexStorage
                           /\ lastOp'.args[1] = Last(vertexPool)
    /\ (/\ lastOp'.op = "addArc" /\ snap'.taken
        /\ snap'.call.op = "reserveArcCapacity"
        /\ numArcs < snap'.call.args[1])
       => arcPool # <<>> /\ arcStorage' = arcStorage
                        /\ lastOp'.args[1] = Last(arcPool)

\* C11: after reserveVertexCapacity(n) (reserveArcCapacity(n)) the live count plus the
\* size of the pool is at least n, every pooled instance is invalid (a vertex with
\* empty lists), and the live vertices, the lists and the arc counter are as before;
\* the creations that follow, until the live count reaches n, are served from the pool.
C11_ReservationServesCreations == [][AfterReservation' /\ CreationAfterReservation]_vars

\* Two vertices were created after reserveVertexCapacity(2) without a construction.
C11_Witness ==
    /\ lastOp.op = "addVertex" /\ snap.taken
    /\ snap.call = Call("reserveVertexCapacity", <<2>>, TRUE)
    /\ Len(vertices) = 2

----------------------------------------------------------------------------
\* The slots, simple arcs and bundles, of the live outgoing lists of the live
\* vertices of store G.
LiveSlots(G) == UNION {Range(LiveOut(G, v)) : v \in Range(G.vertices)}

\* map takes the set from one-to-one onto the set to.
OneToOneOnto(map, from, to) ==
    /\ DOMAIN map = from
    /\ {map[x] : x \in from} = to
    /\ \A x, y \in from : map[x] = map[y] => x = y

\* The maps f and g are inverse to each other.
MutuallyInverse(f, g) ==
    /\ \A x \in DOMAIN f : f[x] \in DOMAIN g /\ g[f[x]] = x
    /\ \A y \in DOMAIN g : g[y] \in DOMAIN f /\ f[g[y]] = y

\* The copy c (a store and four maps) matches the store G vertex by vertex and slot
\* by slot.
CopyMatches(c, G) ==
    /\ OneToOneOnto(c.otherToThisVertices, Range(G.vertices), Range(c.this.vertices))
    /\ OneToOneOnto(c.otherToThisArcs, LiveSlots(G), LiveSlots(c.this))
    /\ MutuallyInverse(c.otherToThisVertices, c.thisToOtherVertices)
    /\ MutuallyInverse(c.otherToThisArcs, c.thisToOtherArcs)
    /\ \A a \in LiveSlots(G) :
          /\ c.this.arc[c.otherToThisArcs[a]].tail = c.otherToThisVertices[G.arc[a].tail]
          /\ c.this.arc[c.otherToThisArcs[a]].head = c.otherToThisVertices[G.arc[a].head]
    /\ graphSize(c.this) = graphSize(G)

\* The step is a call of copyFrom.
CopyFromStep == lastOp'.op = "copyFrom"

\* C12: after this.copyFrom(other, four maps) this store has one live vertex per live
\* vertex of other and one live arc per live arc of other, the otherToThis and the
\* thisToOther maps are inverse to each other on vertices and on arcs, the image of an
\* arc joins the images of its tail and head, getSize() and getNumArcs(false) are the
\* same in both stores, and other is unchanged.
C12_CopyFromClones ==
    [][CopyFromStep =>
          /\ CopyMatches(snap', Store)
          /\ getNumArcs(snap'.this, FALSE) = getNumArcs(Store, FALSE)
          /\ UNCHANGED storeVars]_vars

\* The same for a store other in which no list holds a bundle.
C12_CopyFromClonesSimpleArcs ==
    [][(CopyFromStep /\ GraphOfSimpleArcs(Store)) =>
          /\ CopyMatches(snap', Store)
          /\ getNumArcs(snap'.this, FALSE) = getNumArcs(Store, FALSE)
          /\ UNCHANGED storeVars]_vars

\* copyFrom was called with a store other that holds a bundle of two parallel arcs.
C12_Witness ==
    /\ lastOp.op = "copyFrom"
    /\ \E b \in LiveSlots(Store) : isMultiArc(b) /\ Len(arc[b].arcs) >= 2

----------------------------------------------------------------------------
\* The positions of the live outgoing slots of tail whose head is head, in the
\* order of iteration: the simple arcs, then the bundles.
SlotsTo(tail, head) ==
    {i \in 1..Len(LiveOut(Store, tail)) : arc[LiveOut(Store, tail)[i]].head = head}

\* The least of a set of positions that is not empty.
First(positions) == CHOOSE i \in positions : \A j \in positions : i <= j

\* C13: findArc(tail, head) returns none iff tail has no live outgoing slot, simple arc
\* or bundle, whose head is head; otherwise it returns the first such slot in the order
\* of iteration, simple arcs before bundles.
C13_FindArcFirstMatch ==
    lastOp.op = "findArc" =>
        LET tail == lastOp.args[1]
            head == lastOp.args[2]
        IN  /\ lastOp.ret = NULL <=> SlotsTo(tail, head) = {}
            /\ SlotsTo(tail, head) # {} =>
                  lastOp.ret = LiveOut(Store, tail)[First(SlotsTo(tail, head))]

\* findArc found a simple arc to head, added later than a bundle to head that the
\* tail holds as well.
C13_Witness ==
    /\ lastOp.op = "findArc"
    /\ lastOp.ret # NULL
    /\ ~isMultiArc(lastOp.ret)
    /\ \E b \in Range(vertex[lastOp.args[1]].outgoingMultiArcs) :
          /\ arc[b].head = lastOp.args[2]
          /\ \A a \in Range(arc[b].arcs) : arc[a].id < arc[lastOp.ret].id

----------------------------------------------------------------------------
\* The arcs of a list of slots: the slots and the members of the bundles among them.
ArcsOfSlots(G, list) == Range(list) \cup UNION {Range(G.arc[b].arcs) : b \in Range(list)}

\* The arc a is in the live (deactivated) outgoing adjacency of its tail and in the
\* live (deactivated) incoming adjacency of its head, in store G.
LiveAtBothEnds(G, a) ==
    /\ a \in ArcsOfSlots(G, LiveOut(G, G.arc[a].tail))
    /\ a \in ArcsOfSlots(G, LiveIn(G, G.arc[a].head))
DeactivatedAtBothEnds(G, a) ==
    /\ a \in Range(ShadowOut(G, G.arc[a].tail))
    /\ a \in Range(ShadowIn(G, G.arc[a].head))

\* The step is a call of deactivateArc (activateArc) that returns what it has to
\* and, if that is true, has moved the arc at both ends, flipped its validity and
\* changed the arc counter by one.
DeactivateArcStep ==
    lastOp'.op = "deactivateArc" =>
        LET a == lastOp'.args[1]
        IN  /\ lastOp'.ret = LiveAtBothEnds(Store, a)
            /\ lastOp'.ret =>
                  /\ DeactivatedAtBothEnds(Store', a)
                  /\ ~LiveAtBothEnds(Store', a)
                  /\ arc[a].valid /\ ~arc'[a].valid
                  /\ numArcs' = numArcs - 1
ActivateArcStep ==
    lastOp'.op = "activateArc" =>
        LET a == lastOp'.args[1]
        IN  /\ lastOp'.ret = DeactivatedAtBothEnds(Store, a)
            /\ lastOp'.ret =>
                  /\ LiveAtBothEnds(Store', a)
                  /\ ~DeactivatedAtBothEnds(Store', a)
                  /\ ~arc[a].valid /\ arc'[a].valid
                  /\ numArcs' = numArcs + 1

\* C14: deactivateArc(a, tail, head) returns true iff a is in the live outgoing
\* adjacency of tail and in the live incoming adjacency of head, activateArc(a, tail,
\* head) returns true iff a is in the deactivated outgoing list of tail and in the
\* deactivated incoming list of head; on success the arc has moved between the live and
\* the shadow lists at both ends, its validity has flipped and the arc counter has
\* changed by one; in every other case the call returns false.
C14_ArcActivationReturns == [][DeactivateArcStep /\ ActivateArcStep]_vars

\* No list of store G holds a bundle and no arc is recorded as the member of one.
NothingBundled(G) ==
    /\ GraphOfSimpleArcs(G)
    /\ \A w \in VerticesOf(G) : \A a \in ArcObjs : G.vertex[w].bundle[a] = NULL

\* The same for the calls on a store without bundles.
C14_ArcActivationReturnsSimpleArcs ==
    [][NothingBundled(Store) => (DeactivateArcStep /\ ActivateArcStep)]_vars

\* deactivateArc was called for a loop that is a member of a bundle: it has returned
\* false and left the loop in the deactivated outgoing list of its vertex.
C14_Witness ==
    /\ lastOp.op = "deactivateArc"
    /\ ~lastOp.ret
    /\ lastOp.args[2] = lastOp.args[3]
    /\ lastOp.args[1] \in Range(vertex[lastOp.args[2]].deactivatedOutgoingArcs)
    /\ lastOp.args[1] \notin Range(ShadowIn(Store, lastOp.args[2]))
    /\ vertex[lastOp.args[2]].incomingMultiArcs # <<>>

----------------------------------------------------------------------------
\* The step is a call v->op(a) with an arc a whose tail (head) is not v.
WrongTailStep ==
    /\ lastOp'.op \in {"addOutgoingSimpleArc", "addOutgoingMultiArc"}
    /\ arc[lastOp'.args[2]].tail # lastOp'.args[1]
WrongHeadStep ==
    /\ lastOp'.op \in {"addIncomingSimpleArc", "addIncomingMultiArc"}
    /\ arc[lastOp'.args[2]].head # lastOp'.args[1]

\* C15: with the consistency check enabled, as it is for a constructed vertex,
\* addOutgoingSimpleArc and addOutgoingMultiArc on a vertex that is not the tail of the
\* arc, and addIncomingSimpleArc and addIncomingMultiArc on a vertex that is not its
\* head, fail with the invalid-endpoint error and leave the lists of the vertex, the
\* index maps and the bundle map as they were.
C15_WrongEndpointRejected ==
    [][(WrongTailStep \/ WrongHeadStep) =>
          /\ vertex[lastOp'.args[1]].checkConsisteny
          /\ signal' = "invalid_argument"
          /\ vertex' = vertex
          /\ sharedOutIndexMap' = sharedOutIndexMap
          /\ sharedInIndexMap' = sharedInIndexMap]_vars

\* addIncomingMultiArc was called with a bundle on a vertex that is not its head.
C15_Witness ==
    /\ lastOp.op = "addIncomingMultiArc"
    /\ arc[lastOp.args[2]].head # lastOp.args[1]
    /\ signal = "invalid_argument"

----------------------------------------------------------------------------
\* The pairs <<v, w>> such that the traversal B steps from v to w: along the live
\* arcs of the store, against them, or both.
StepsOf(B) ==
    LET along == {<<arc[a].tail, arc[a].head>> : a \in LiveSlots(Store)}
        against == {<<arc[a].head, arc[a].tail>> : a \in LiveSlots(Store)}
    IN  IF B.onUndirectedGraph THEN along \cup against
        ELSE IF B.onReverseGraph THEN against
        ELSE along

RECURSIVE Within(_, _, _)
\* The vertices at most k steps from vertex s.
Within(steps, s, k) ==
    IF k = 0 THEN {s}
    ELSE LET near == Within(steps, s, k - 1)
         IN  near \cup {e[2] : e \in {f \in steps : f[1] \in near}}

\* The vertices reachable from s, and the distance of a reachable vertex from s.
ReachableFrom(steps, s) == Within(steps, s, MaxVertices)
Distance(steps, s, v) == CHOOSE k \in 0..MaxVertices :
    v \in Within(steps, s, k) /\ \A j \in 0..(k - 1) : v \notin Within(steps, s, j)

\* A breadth-first search without vetoes and stop conditions has run.
BfsHasRun == traversal.name = "bfs" /\ traversal.calls = [NoCallbacks EXCEPT
    !.verticesDiscovered = traversal.calls.verticesDiscovered,
    !.arcsDiscovered = traversal.calls.arcsDiscovered,
    !.treeArcs = traversal.calls.treeArcs,
    !.nonTreeArcs = traversal.calls.nonTreeArcs]

\* C16: a BFS run without a stop and without a veto marks as discovered exactly the
\* vertices reachable from the start vertex along outgoing arcs (forward), along
\* incoming arcs (reverse) or along arcs in either direction (undirected), and
\* numVerticesReached() and deliver() are the number of those vertices.
C16_BfsDiscoversReachable ==
    BfsHasRun =>
        LET reachable == ReachableFrom(StepsOf(traversal), traversal.startVertex)
        IN  /\ traversal.discovered = reachable
            /\ numVerticesReached(traversal) = Cardinality(reachable)
            /\ deliver(traversal) = Cardinality(reachable)

\* The forward search from the first vertex of a path of four vertices has run.
C16_Witness ==
    /\ BfsHasRun
    /\ ~traversal.onUndirectedGraph /\ ~traversal.onReverseGraph
    /\ traversal.startVertex = 1
    /\ StepsOf(traversal) = {<<1, 2>>, <<2, 3>>, <<3, 4>>}
    /\ numVerticesReached(traversal) = 4

\* C17: in a BFS run without a stop and without a veto, in order mode the start
\* vertex has the value 0 and the discovered vertices have the values 0..k-1 in the
\* order of their discovery, which is non-decreasing in the distance from the start;
\* in level mode the value of a discovered vertex is its distance from the start.
C17_BfsValues ==
    BfsHasRun =>
        LET found == traversal.calls.verticesDiscovered
            dist(v) == Distance(StepsOf(traversal), traversal.startVertex, v)
        IN  /\ Range(found) = traversal.discovered
            /\ DOMAIN traversal.property = traversal.discovered
            /\ traversal.property[traversal.startVertex] = 0
            /\ traversal.computeOrder =>
                  /\ \A i \in 1..Len(found) : traversal.property[found[i]] = i - 1
                  /\ \A i, j \in 1..Len(found) : i <= j => dist(found[i]) <= dist(found[j])
            /\ ~traversal.computeOrder =>
                  \A v \in traversal.discovered : traversal.property[v] = dist(v)

\* A search in level mode has run and has found two vertices at distance 1 and one
\* at distance 2.
C17_Witness ==
    /\ BfsHasRun
    /\ ~traversal.computeOrder
    /\ Cardinality({v \in traversal.discovered : traversal.property[v] = 1}) = 2
    /\ \E v \in traversal.discovered : traversal.property[v] = 2

----------------------------------------------------------------------------
\* The object after the run of traversal without any stop condition.
RunToTheEnd ==
    run(BreadthFirstSearch(traversal.startVertex, traversal.onUndirectedGraph,
                           traversal.onReverseGraph, traversal.computeOrder, NoCallbacks),
        Store)

\* What was discovered is discovered, with the same value, in the run without the
\* stop condition.
KeptAsDiscovered(full) ==
    /\ traversal.discovered \subseteq full.discovered
    /\ DOMAIN traversal.property = traversal.discovered
    /\ \A w \in traversal.discovered : traversal.property[w] = full.property[w]

\* run() has returned because the vertex stop condition held for vertex v.
StoppedAtVertex(v) ==
    /\ traversal.name = "bfs"
    /\ lastOp.op = "run"
    /\ traversal.calls.vertexStops = <<v>>

\* The search has halted at v before going through the arcs of v.
HaltedAt(v) ==
    /\ traversal.queue # <<>> /\ Head(traversal.queue) = v
    /\ v \notin Range(traversal.explored)
    /\ KeptAsDiscovered(RunToTheEnd)
    /\ traversal.discovered \subseteq
          ReachableFrom({e \in StepsOf(traversal) : e[1] # v}, traversal.startVertex)

\* C18: if the vertex stop condition holds for v when v is at the front of the queue,
\* the search halts before an arc of v is explored: v stays at the front of the queue,
\* no arc callback fires for an arc of v, every vertex discovered before stays
\* discovered with its value, and a vertex reachable only through v is not discovered.
C18_VertexStopHalts ==
    \A v \in VertexObjs : StoppedAtVertex(v) => HaltedAt(v)

\* The same for the graphs of two vertices and more.
C18_VertexStopHaltsTwoVertices ==
    \A v \in VertexObjs : (StoppedAtVertex(v) /\ graphSize(Store) >= 2) => HaltedAt(v)

\* The search was run on the graph of one vertex with the stop condition at that
\* vertex, and the queue holds the sentinel only.
C18_Witness ==
    /\ StoppedAtVertex(traversal.startVertex)
    /\ graphSize(Store) = 1
    /\ traversal.queue = <<NULL>>

----------------------------------------------------------------------------
\* run() has returned because the arc stop condition held for arc a.
StoppedAtArc(a) ==
    /\ traversal.name = "bfs"
    /\ lastOp.op = "run"
    /\ traversal.calls.arcStops = <<a>>

\* The callbacks up to the visit of a are those of the run without the stop
\* condition, a is the last arc visited, and nothing came of the visit.
HaltedAtArc(a, full) ==
    LET calls == traversal.calls
        visited == Len(calls.arcsDiscovered)
    IN  /\ traversal.stop
        /\ a \notin Range(calls.treeArcs) /\ a \notin Range(calls.nonTreeArcs)
        /\ Len(calls.verticesDiscovered) = Len(calls.treeArcs) + 1
        /\ visited >= 1 /\ calls.arcsDiscovered[visited] = a
        /\ \A i \in 1..(visited - 1) : calls.arcsDiscovered[i] # a
        /\ visited <= Len(full.calls.arcsDiscovered)
        /\ calls.arcsDiscovered = SubSeq(full.calls.arcsDiscovered, 1, visited)
        /\ traversal.discovered = Range(calls.verticesDiscovered)
        /\ KeptAsDiscovered(full)

\* C19: once the arc stop condition has returned true for an arc a, the peer of a is
\* not discovered through a, neither treeArc nor nonTreeArc is called for a, no
\* further arc of any vertex is visited (in undirected mode the incoming arcs of the
\* current vertex included), and the run returns; the discovered marks and the values
\* set before are unchanged.
C19_ArcStopHalts ==
    \A a \in ArcObjs : StoppedAtArc(a) => HaltedAtArc(a, RunToTheEnd)

\* An undirected search stopped at an outgoing arc of a vertex that has an incoming
\* arc too, with an undiscovered peer at the other end of a.
C19_Witness ==
    \E a \in ArcObjs :
        /\ StoppedAtArc(a)
        /\ traversal.onUndirectedGraph
        /\ traversal.explored # <<>>
        /\ LET curr == traversal.explored[Len(traversal.explored)]
           IN  /\ arc[a].tail = curr
               /\ arc[a].head \notin traversal.discovered
               /\ LiveIn(Store, curr) # <<>>
               /\ Len(traversal.calls.arcsDiscovered) <
                      Len(RunToTheEnd.calls.arcsDiscovered) - 1

----------------------------------------------------------------------------
\* A depth-first search without vetoes and stop conditions has run.
DfsHasRun == traversal.name = "dfs" /\ traversal.calls = [NoCallbacks EXCEPT
    !.verticesDiscovered = traversal.calls.verticesDiscovered,
    !.arcsDiscovered = traversal.calls.arcsDiscovered,
    !.treeArcs = traversal.calls.treeArcs,
    !.nonTreeArcs = traversal.calls.nonTreeArcs]

\* C20: a DFS run without a stop and without a veto gives the discovered vertices
\* the distinct numbers 0..k-1 in the order of their first arrival, the start vertex
\* the number 0, and every other discovered vertex a parent with a smaller number
\* from which an arc in the chosen direction leads to it; the discovered vertices
\* are exactly those reachable from the start in the chosen direction mode, and
\* numVerticesReached() and deliver() are their number.
C20_DfsNumbers ==
    DfsHasRun =>
        LET found == traversal.calls.verticesDiscovered
            k == Len(found)
            steps == StepsOf(traversal)
            number(v) == traversal.property[v].dfsNumber
        IN  /\ k >= 1 /\ found[1] = traversal.startVertex
            /\ \A i, j \in 1..k : found[i] = found[j] => i = j
            /\ Range(found) = ReachableFrom(steps, traversal.startVertex)
            /\ dfsNumVerticesReached(traversal) = k
            /\ dfsDeliver(traversal) = k
            /\ traversal.computePropertyValues =>
                  /\ DOMAIN traversal.property = Range(found)
                  /\ \A i \in 1..k : number(found[i]) = i - 1
                  /\ \A i \in 2..k :
                        LET parent == traversal.property[found[i]].parent
                        IN  /\ parent \in Range(found)
                            /\ number(parent) < number(found[i])
                            /\ <<parent, found[i]>> \in steps

\* The reverse search from vertex 1 has run on a graph where vertex 3 has an arc to
\* vertex 2 and to vertex 4, and vertex 2 an arc to vertex 1: vertex 4 is not reached.
C20_Witness ==
    /\ DfsHasRun
    /\ traversal.computePropertyValues
    /\ ~traversal.onUndirectedGraph /\ traversal.onReverseGraph
    /\ traversal.startVertex = 1
    /\ StepsOf(traversal) = {<<1, 2>>, <<2, 3>>, <<4, 3>>}
    /\ dfsNumVerticesReached(traversal) = 3
    /\ traversal.property[3] = DFSResult(2, 2, 2)

----------------------------------------------------------------------------
RECURSIVE AncestorsOf(_, _)
\* The vertex w and the vertices above it in the tree of the recorded parents, at
\* most k of them.
AncestorsOf(w, k) ==
    IF k = 0 \/ w = NULL \/ w \notin DOMAIN traversal.property THEN {}
    ELSE {w} \cup AncestorsOf(traversal.property[w].parent, k - 1)

\* The subtree of the discovered vertex v.
SubtreeOf(v) == {w \in traversal.discovered : v \in AncestorsOf(w, MaxVertices)}

\* The pairs <<x, y>> such that an arc that is no tree arc leads from x to y in the
\* direction mode of the search.
NonTreeSteps ==
    LET others == LiveSlots(Store) \ Range(traversal.calls.treeArcs)
        along == {<<arc[a].tail, arc[a].head>> : a \in others}
        against == {<<arc[a].head, arc[a].tail>> : a \in others}
    IN  IF traversal.onUndirectedGraph THEN along \cup against
        ELSE IF traversal.onReverseGraph THEN against
        ELSE along

\* The least discovery number among the subtree of v and the ends of the given
\* steps that leave it.
LeastNumber(v, steps) ==
    LET subtree == SubtreeOf(v)
        numbers == {traversal.property[w].dfsNumber :
                        w \in subtree \cup {e[2] : e \in {f \in steps : f[1] \in subtree}}}
    IN  CHOOSE n \in numbers : \A m \in numbers : n <= m

DfsValuesComputed == DfsHasRun /\ traversal.computePropertyValues

\* C21: after a DFS run without a stop and without a veto, the low number of every
\* discovered vertex v is the least discovery number among the vertices of the
\* subtree of v and the peers of the non-tree arcs that leave a vertex of that
\* subtree in the chosen direction; it is at most the number of v and at least the
\* low number of the parent of v.
C21_DfsLowNumbers ==
    DfsValuesComputed =>
        \A v \in traversal.discovered :
            LET result == traversal.property[v]
            IN  /\ result.lowNumber = LeastNumber(v, NonTreeSteps)
                /\ result.lowNumber <= result.dfsNumber
                /\ v # traversal.startVertex =>
                       traversal.property[result.parent].lowNumber <= result.lowNumber

\* The same with the non-tree arcs left out that lead from a vertex to its parent.
C21_DfsLowNumbersParentSkipped ==
    DfsValuesComputed =>
        \A v \in traversal.discovered :
            LET result == traversal.property[v]
                counted == {e \in NonTreeSteps : /\ e[1] \in traversal.discovered
                                                 /\ traversal.property[e[1]].parent # e[2]}
            IN  /\ result.lowNumber = LeastNumber(v, counted)
                /\ result.lowNumber <= result.dfsNumber
                /\ v # traversal.startVertex =>
                       traversal.property[result.parent].lowNumber <= result.lowNumber

\* The forward search from vertex 1 has run on the graph of the arcs 1 -> 2 and
\* 2 -> 1, and the low number of vertex 2 is its own number.
C21_Witness ==
    /\ DfsValuesComputed
    /\ ~traversal.onUndirectedGraph /\ ~traversal.onReverseGraph
    /\ traversal.startVertex = 1
    /\ StepsOf(traversal) = {<<1, 2>>, <<2, 1>>}
    /\ traversal.property[2] = DFSResult(1, 1, 1)

\* The forward search from vertex 1 has run on the cycle 1 -> 2 -> 3 -> 1, and all
\* the low numbers are 0.
C21_CycleOfThree ==
    /\ DfsValuesComputed
    /\ ~traversal.onUndirectedGraph /\ ~traversal.onReverseGraph
    /\ traversal.startVertex = 1
    /\ StepsOf(traversal) = {<<1, 2>>, <<2, 3>>, <<3, 1>>}
    /\ \A v \in 1..3 : traversal.property[v].lowNumber = 0

----------------------------------------------------------------------------
\* A call of run or resume has not returned.
Running == traversal.name # "none" /\ traversal.running

\* C22: on every graph BFS run()/resume() and DFS run() return: the BFS loop ends
\* when the queue is empty or a stop condition has held, and the recursion of dfs
\* comes back to run, in every direction mode, on graphs with cycles, loops and
\* parallel arcs too.
C22_SearchesReturn == Running ~> ~Running

\* The call of run that has returned has left the object as the searches run in one
\* go leave it.
C22_StepsAgreeWithRun ==
    (traversal.name # "none" /\ ~traversal.running /\ lastOp.op = "run") =>
        IF traversal.name = "bfs"
        THEN traversal = run(BreadthFirstSearch(traversal.startVertex,
                                 traversal.onUndirectedGraph, traversal.onReverseGraph,
                                 traversal.computeOrder,
                                 StopsAt(traversal.calls.stopVertices)), Store)
        ELSE traversal = dfsRun(DepthFirstSearch(traversal.startVertex,
                                 traversal.onUndirectedGraph, traversal.onReverseGraph,
                                 traversal.computePropertyValues,
                                 StopsAt(traversal.calls.stopVertices)), Store)

\* An undirected depth-first search has returned on a graph with a loop and with
\* two arcs that make a cycle, all its vertices discovered.
C22_Witness ==
    /\ traversal.name = "dfs" /\ ~traversal.running
    /\ traversal.onUndirectedGraph
    /\ {<<1, 1>>, <<1, 2>>, <<2, 1>>} \subseteq
          {<<arc[a].tail, arc[a].head>> : a \in LiveSlots(Store)}
    /\ traversal.discovered = {1, 2}

----------------------------------------------------------------------------
\* The vertex at position i of the list records index i, and no vertex is at two
\* positions.
DenseVertexList(list) ==
    /\ \A i \in 1..Len(list) : vertex[list[i]].index = i - 1
    /\ \A i, j \in 1..Len(list) : list[i] = list[j] => i = j

\* C23: after any sequence of addVertex, removeVertex, deactivateVertex and
\* activateVertex calls the live and the deactivated vertices are dense, each vertex
\* recording its position in its list, and no vertex is in both lists or twice in one.
C23_VertexListsDense ==
    /\ DenseVertexList(vertices)
    /\ DenseVertexList(deactivatedVertices)
    /\ Range(vertices) \cap Range(deactivatedVertices) = {}

\* activateVertex has returned true and left a vertex deactivated, and the live
\* vertices are no longer in the order of their construction.
C23_Witness ==
    /\ lastOp.op = "activateVertex" /\ lastOp.ret
    /\ Len(deactivatedVertices) >= 1 /\ Len(vertices) >= 2
    /\ vertices[Len(vertices)] < vertices[1]
    /\ deactivatedVertices[1] > vertices[1]

----------------------------------------------------------------------------
\* Every arc of the list is at the position that idx records for it, and at no other.
PositionsRecorded(list, idx(_)) ==
    /\ \A i \in 1..Len(list) : idx(list[i]) = i - 1
    /\ \A i, j \in 1..Len(list) : list[i] = list[j] => i = j

\* The shadow lists of the simple arcs of vertex v, and of its outgoing bundles.
ShadowPositionsRecorded(v) ==
    LET multiOut(a) == vertex[v].multiOutIndex[a]
    IN  /\ PositionsRecorded(vertex[v].deactivatedOutgoingArcs, recordedOutIndex)
        /\ PositionsRecorded(vertex[v].deactivatedIncomingArcs, recordedInIndex)
        /\ PositionsRecorded(vertex[v].deactivatedOutgoingMultiArcs, multiOut)

\* C24: after any sequence of activation and deactivation calls for vertices, arcs and
\* bundles, every arc in a shadow list of a vertex has its position in that list as
\* its recorded index, in all four shadow lists, and a deactivated bundle is in
\* exactly one slot of the shadow list of the bundles.
C24_ShadowIndicesMatch ==
    \A v \in LiveVertices \cup DeactivatedVertices :
        LET multiIn(a) == vertex[v].multiInIndex[a]
        IN  /\ ShadowPositionsRecorded(v)
            /\ PositionsRecorded(vertex[v].deactivatedIncomingMultiArcs, multiIn)

\* The same without the recorded indices of the incoming bundles.
C24_ShadowIndicesMatchButIncomingBundles ==
    \A v \in LiveVertices \cup DeactivatedVertices :
        /\ ShadowPositionsRecorded(v)
        /\ PositionsRecorded(vertex[v].deactivatedIncomingMultiArcs, LAMBDA a : 
               PositionIn(vertex[v].deactivatedIncomingMultiArcs, a))

\* A bundle has been deactivated at a head that holds a deactivated simple arc, and
\* its recorded index is not its position.
C24_Witness ==
    \E v \in LiveVertices \cup DeactivatedVertices :
        /\ lastOp.op = "deactivateVertex" /\ lastOp.ret
        /\ Len(vertex[v].deactivatedIncomingArcs) = 1
        /\ Len(vertex[v].deactivatedIncomingMultiArcs) = 1
        /\ vertex[v].multiInIndex[vertex[v].deactivatedIncomingMultiArcs[1]] = 1

----------------------------------------------------------------------------
\* The vertex v is in exactly one of the three lists of vertices, valid iff it is
\* live, and without any arc while it is in the pool.
VertexInOnePlace(v) ==
    /\ Count(vertices, v) + Count(deactivatedVertices, v) + Count(vertexPool, v) = 1
    /\ v \in Range(vertices) <=> vertex[v].valid
    /\ v \in Range(vertexPool) => Adjacency(Store, v) = {}

\* The simple arcs that the lists of slots hold, directly or as members of a bundle.
HeldBy(slots) ==
    UNION {IF isMultiArc(s) THEN Range(arc[s].arcs) ELSE {s} : s \in Range(slots)}

\* The arc a is in the outgoing adjacency of its tail and in the incoming adjacency
\* of its head, live or shadow, directly or as a member of a bundle.
Attached(a) ==
    /\ arc[a].tail \in VerticesOf(Store) /\ arc[a].head \in VerticesOf(Store)
    /\ a \in HeldBy(LiveOut(Store, arc[a].tail) \o ShadowOut(Store, arc[a].tail))
    /\ a \in HeldBy(LiveIn(Store, arc[a].head) \o ShadowIn(Store, arc[a].head))

\* The arc a is either attached or in the pool, once and invalid.
ArcInOnePlace(a) ==
    /\ Attached(a) <=> a \notin Range(arcPool)
    /\ Count(arcPool, a) <= 1
    /\ a \in Range(arcPool) => ~arc[a].valid

C25_EachVertexInOnePlace == \A v \in 1..vertexStorage : VertexInOnePlace(v)

\* C25: in every reachable state each constructed vertex is in exactly one of the
\* live vertices (valid), the deactivated vertices (invalid) and the vertex pool
\* (invalid, all its lists empty), and each constructed arc is either attached to its
\* tail and its head or in the arc pool (invalid), never both and never neither, and
\* no object is twice in a pool.
C25_EachObjectInOnePlace ==
    /\ \A v \in 1..vertexStorage : VertexInOnePlace(v)
    /\ \A a \in 1..arcStorage : ArcInOnePlace(a)

\* removeVertex has pooled the head of an arc that the tail keeps in a shadow list:
\* the arc is neither attached nor in the pool.
C25_Witness ==
    /\ lastOp.op = "removeVertex"
    /\ \E a \in 1..arcStorage :
          /\ arc[a].head = lastOp.args[1] /\ arc[a].tail # arc[a].head
          /\ arc[a].tail \in Range(vertices)
          /\ a \in Range(vertex[arc[a].tail].deactivatedOutgoingArcs)
          /\ a \notin Range(arcPool)

----------------------------------------------------------------------------
\* The bundles in the lists of v, live or shadow, that the arc a is a member of.
BundlesAt(v, a) ==
    {b \in Range(LiveOut(Store, v) \o LiveIn(Store, v)
                 \o ShadowOut(Store, v) \o ShadowIn(Store, v)) :
        isMultiArc(b) /\ a \in Range(arc[b].arcs)}

\* The bundle map of v has an entry for a iff a is in a bundle in a list of v, and
\* the entry is that bundle.
BundleEntryIsBundle(v, a) ==
    /\ vertex[v].bundle[a] # NULL <=> BundlesAt(v, a) # {}
    /\ vertex[v].bundle[a] # NULL => vertex[v].bundle[a] \in BundlesAt(v, a)

\* C26: in every reachable state, for every vertex v and every arc a, the bundle map
\* of v has a non-null entry for a iff a is a member of a bundle that is in the
\* outgoing or the incoming list of bundles of v, and the entry is that bundle.
C26_BundleMapMatches ==
    \A v \in 1..vertexStorage : \A a \in 1..arcStorage : BundleEntryIsBundle(v, a)

\* Every member of a bundle in a list of a vertex has an entry in the bundle map.
C26_BundledArcsHaveEntries ==
    \A v \in 1..vertexStorage : \A a \in 1..arcStorage :
        BundlesAt(v, a) # {} => vertex[v].bundle[a] # NULL

\* unbundleParallelArcs has returned and a bundle map still has an entry for an arc
\* that is a simple arc of the lists again.
C26_Witness ==
    /\ lastOp.op = "unbundleParallelArcs"
    /\ \E v \in Range(vertices) : \E a \in 1..arcStorage :
          /\ vertex[v].bundle[a] # NULL
          /\ a \in Range(vertex[v].outgoingArcs)
          /\ BundlesAt(v, a) = {}

----------------------------------------------------------------------------
\* The simple arc a is in a live list of its tail, directly or as a member of a
\* bundle.
HeldByTail(a) ==
    /\ ~isMultiArc(a) /\ arc[a].tail \in LiveVertices
    /\ \E s \in Range(LiveOut(Store, arc[a].tail)) :
          s = a \/ (isMultiArc(s) /\ a \in Range(arc[s].arcs))

\* removeArc(a, tail, head) and deactivateArc(a, tail, head) for a simple arc a that a
\* live list of its tail holds, with its own tail and head.
DoRemoveHeldArc(a) ==
    /\ signal = "ok"
    /\ HeldByTail(a)
    /\ Becomes(removeArc(Store, a, arc[a].tail, arc[a].head))
    /\ lastOp' = Call("removeArc", <<a, arc[a].tail, arc[a].head>>, TRUE)
DoDeactivateHeldArc(a) ==
    /\ signal = "ok"
    /\ HeldByTail(a)
    /\ Returns(deactivateArc(Store, a, arc[a].tail, arc[a].head), "deactivateArc", <<a, arc[a].tail, arc[a].head>>)

\* containsArc(a, tail) for a simple arc a that the store has handed out and not
\* taken back, with its own tail.
DoContainsArc(a) ==
    /\ signal = "ok"
    /\ ~isMultiArc(a) /\ arc[a].tail \in LiveVertices
    /\ a \notin Range(arcPool)
    /\ Becomes(hasOutgoingArcAsserted(Store, arc[a].tail, a))
    /\ lastOp' = Call("containsArc", <<a, arc[a].tail>>, containsArc(Store, a, arc[a].tail))

RemoveHeldArc == \E a \in ArcObjs : DoRemoveHeldArc(a) /\ snap' = NoSnap
DeactivateHeldArc == \E a \in ArcObjs : DoDeactivateHeldArc(a) /\ snap' = NoSnap
ContainsArc == \E a \in ArcObjs : DoContainsArc(a) /\ snap' = NoSnap

\* The store under addVertex, addArc and bundleParallelArcs, and removeArc,
\* deactivateArc and containsArc of the arcs that the lists hold, bundled or not.
NextBundledArcs ==
    \/ AddVertex(MaxGraphVertices) \/ AddArc(MaxArcsSmall)
    \/ BundleParallelArcs("none", MaxBundlesSmall)
    \/ RemoveHeldArc \/ DeactivateHeldArc \/ ContainsArc
SpecBundledArcs == Init /\ [][NextBundledArcs]_vars

\* C27: the assertions of the adjacency code never fail in a state reachable through
\* the mutations and the queries of the store, removeArc, deactivateArc and containsArc
\* of an arc in a bundle between two distinct vertices included.
C27_AssertionsHold == signal # "assert"

\* An assertion fails only in a call for a simple arc, and in removeArc and
\* deactivateArc only for an arc from one vertex to another.
C27_AssertionsHoldButForBundled ==
    signal = "assert" =>
        /\ lastOp.op \in {"removeArc", "deactivateArc", "containsArc"}
        /\ ~isMultiArc(lastOp.args[1])
        /\ lastOp.op # "containsArc" => lastOp.args[2] # lastOp.args[3]

\* removeArc of an arc from one vertex to another has failed an assertion.
C27_Witness ==
    /\ signal = "assert"
    /\ lastOp.op = "removeArc"
    /\ lastOp.args[2] # lastOp.args[3]

----------------------------------------------------------------------------
\* v->hibernate() on a live vertex v of the store, and v->recycle() after it.
DoHibernate(v) ==
    /\ signal = "ok"
    /\ v \in LiveVertices /\ vertex[v].valid
    /\ Becomes(hibernate(Store, v))
    /\ lastOp' = Call("hibernate", <<v>>, TRUE)
DoRecycle(v) ==
    /\ signal = "ok"
    /\ v \in LiveVertices /\ ~vertex[v].valid
    /\ Becomes(recycle(Store, v))
    /\ lastOp' = Call("recycle", <<v>>, TRUE)

Hibernate == \E v \in VertexObjs : DoHibernate(v) /\ snap' = NoSnap
Recycle == \E v \in VertexObjs : DoRecycle(v) /\ snap' = NoSnap

\* No vertex has been hibernated by a call of its own.
NothingHibernated == lastOp.op \notin {"hibernate", "recycle"}

\* The store under addVertex, addArc, bundleParallelArcs and deactivateArc, and then
\* its vertices under hibernate and recycle.
NextHibernate ==
    \/ NothingHibernated /\ AddVertex(MaxGraphVertices)
    \/ NothingHibernated /\ AddArc(MaxArcs)
    \/ NothingHibernated /\ BundleWhileAllActive
    \/ NothingHibernated /\ DeactivateArc("none")
    \/ Hibernate \/ Recycle
SpecHibernate == Init /\ [][NextHibernate]_vars

\* The lists and the bundle map of v are empty after the step and v is invalid.
HibernatedEmpty(v) ==
    /\ ~vertex'[v].valid
    /\ vertex'[v].outgoingArcs = <<>> /\ vertex'[v].incomingArcs = <<>>
    /\ vertex'[v].outgoingMultiArcs = <<>> /\ vertex'[v].incomingMultiArcs = <<>>
    /\ vertex'[v].deactivatedOutgoingArcs = <<>>
    /\ vertex'[v].deactivatedIncomingArcs = <<>>
    /\ vertex'[v].deactivatedOutgoingMultiArcs = <<>>
    /\ vertex'[v].deactivatedIncomingMultiArcs = <<>>
    /\ \A a \in ArcObjs : vertex'[v].bundle[a] = NULL

\* The step resets the index entries of the arcs in the outgoing and the incoming list
\* of v.
HibernatedIndicesReset(v) ==
    /\ \A a \in Range(vertex[v].outgoingArcs) : sharedOutIndexMap'[arc[a].id] = NO_INDEX
    /\ \A a \in Range(vertex[v].incomingArcs) : sharedInIndexMap'[arc[a].id] = NO_INDEX
    /\ \A a \in Range(vertex[v].outgoingMultiArcs) : vertex'[v].multiOutIndex[a] = NO_INDEX
    /\ \A a \in Range(vertex[v].incomingMultiArcs) : vertex'[v].multiInIndex[a] = NO_INDEX

\* The step leaves the index entries of the arcs in the lists of the other vertices.
OtherIndicesKept(v) ==
    \A w \in VerticesOf(Store) \ {v} :
        /\ \A a \in Range(vertex[w].outgoingArcs \o vertex[w].deactivatedOutgoingArcs) :
              sharedOutIndexMap'[arc[a].id] = sharedOutIndexMap[arc[a].id]
        /\ \A a \in Range(vertex[w].incomingArcs \o vertex[w].deactivatedIncomingArcs) :
              sharedInIndexMap'[arc[a].id] = sharedInIndexMap[arc[a].id]
        /\ vertex'[w] = vertex[w]

\* recycle only marks the vertex valid.
RecycledOnly(v) ==
    /\ vertex' = [vertex EXCEPT ![v].valid = TRUE]
    /\ arc' = arc
    /\ sharedOutIndexMap' = sharedOutIndexMap /\ sharedInIndexMap' = sharedInIndexMap

\* C28: hibernate() on a vertex empties its four live lists, its four shadow lists and
\* its bundle map and marks it invalid; it resets the out-index entry of every arc that
\* was in its outgoing list and the in-index entry of every arc that was in its
\* incoming list, and changes no index entry that records the position of an arc in
\* the list of another vertex; recycle() only marks the vertex valid again.
C28_HibernateClears ==
    [][/\ lastOp'.op = "hibernate" =>
            /\ HibernatedEmpty(lastOp'.args[1])
            /\ HibernatedIndicesReset(lastOp'.args[1])
            /\ OtherIndicesKept(lastOp'.args[1])
       /\ lastOp'.op = "recycle" => RecycledOnly(lastOp'.args[1])]_vars

\* The same for the lists, the bundle map and the validity only, and for recycle().
C28_HibernateEmptiesLists ==
    [][/\ lastOp'.op = "hibernate" => HibernatedEmpty(lastOp'.args[1])
       /\ lastOp'.op = "recycle" => RecycledOnly(lastOp'.args[1])]_vars

\* The index entries of the outgoing arcs are reset.
C28_HibernateResetsOutIndices ==
    [][lastOp'.op = "hibernate" =>
          \A a \in Range(vertex[lastOp'.args[1]].outgoingArcs) :
              sharedOutIndexMap'[arc[a].id] = NO_INDEX]_vars

\* hibernate() was called on the head of a live arc from another vertex.
C28_Witness ==
    /\ lastOp.op = "hibernate"
    /\ \E a \in 1..arcStorage :
          /\ arc[a].head = lastOp.args[1] /\ arc[a].tail # arc[a].head
          /\ a \in Range(vertex[arc[a].tail].outgoingArcs)
          /\ sharedOutIndexMap[arc[a].id] = NO_INDEX

----------------------------------------------------------------------------
\* A run with an onVertexDiscovered callback that vetoes no vertex or one vertex.
RunBfsVeto ==
    \E startVertex \in VertexObjs, undirected, reverse, order \in BOOLEAN :
      \E veto \in {{}} \cup {{v} : v \in 1..MaxVertices} :
        /\ traversal = NoTraversal
        /\ DoRunBfs(startVertex, undirected, reverse, order, Callbacks(veto, {}, {}, {}))
        /\ snap' = NoSnap

\* A graph built with addVertex and addArc, then a breadth-first search on it with a
\* veto on a vertex.
NextBfsVeto == BuildVertex(MaxVertices) \/ BuildArc(MaxArcs) \/ RunBfsVeto
SpecBfsVeto == Init /\ [][NextBfsVeto]_vars

\* The peers of the tree arcs of the run, in the order of the treeArc calls:
\* onVertexDiscovered is called for the start vertex and then for each of them.
TreeArcPeers == Tail(traversal.calls.verticesDiscovered)

\* Every vertex is the peer of at most one tree arc, none is the start vertex, the
\* vertices that have got a value are the start vertex and the peers, and the
\* discovery counter is the number of vertices marked as discovered.
DiscoveredOnce ==
    /\ Len(traversal.calls.treeArcs) = Len(TreeArcPeers)
    /\ \A i, j \in 1..Len(TreeArcPeers) : TreeArcPeers[i] = TreeArcPeers[j] => i = j
    /\ traversal.startVertex \notin Range(TreeArcPeers)
    /\ traversal.maxBfsNumber = Len(TreeArcPeers)
    /\ DOMAIN traversal.property = {traversal.startVertex} \cup Range(TreeArcPeers)
    /\ traversal.maxBfsNumber + 1 = Cardinality(traversal.discovered)

\* C29: in a BFS run the peer of a tree arc is marked as discovered before the next
\* arc is processed, so every vertex is the peer of at most one tree arc and gets a
\* value at most once, and maxBfsNumber + 1 is the number of vertices marked as
\* discovered, also when onVertexDiscovered vetoes a vertex.
C29_PeersDiscoveredOnce == traversal.name = "bfs" => DiscoveredOnce

\* The same for the runs in which onVertexDiscovered vetoes no vertex.
C29_PeersDiscoveredOnceNoVeto ==
    traversal.name = "bfs" /\ traversal.calls.vetoVertices = {} => DiscoveredOnce

\* onVertexDiscovered has vetoed the peer of a tree arc, and a second arc to that
\* vertex was processed after it.
C29_Witness ==
    /\ traversal.name = "bfs"
    /\ \E i \in 1..Len(TreeArcPeers) :
          /\ TreeArcPeers[i] \in traversal.calls.vetoVertices
          /\ \E k \in 1..Len(traversal.calls.arcsDiscovered) :
                /\ traversal.calls.arcsDiscovered[k] # traversal.calls.treeArcs[i]
                /\ TreeArcPeers[i] \in {arc[traversal.calls.arcsDiscovered[k]].head,
                                        arc[traversal.calls.arcsDiscovered[k]].tail}
                /\ Len(traversal.calls.treeArcs) > i

----------------------------------------------------------------------------
\* The while loop of resume of the search B is about to look at the front of the
\* queue.
AtLoopHead(B) ==
    /\ B.name = "bfs" /\ B.running
    /\ B.arcs = <<>> /\ ~B.stop /\ B.queue # <<>>

\* The queue of B holds the sentinel once, the vertices before it are at the distance
\* maxLevel from the start vertex and the vertices after it at maxLevel + 1.
LevelsInQueue(B) ==
    LET dist(v) == Distance(StepsOf(B), B.startVertex, v)
    IN  \E i \in 1..Len(B.queue) :
            /\ \A j \in 1..Len(B.queue) : B.queue[j] = NULL <=> j = i
            /\ \A j \in 1..(i - 1) : dist(B.queue[j]) = B.maxLevel
            /\ \A j \in (i + 1)..Len(B.queue) : dist(B.queue[j]) = B.maxLevel + 1

\* The step takes the sentinel from the front of the queue: it is put back and
\* maxLevel goes up by one iff the queue is not empty then.
SentinelStep ==
    AtLoopHead(traversal) /\ Head(traversal.queue) = NULL /\ traversal' # traversal =>
        IF Tail(traversal.queue) # <<>>
        THEN /\ traversal'.queue = Append(Tail(traversal.queue), NULL)
             /\ traversal'.maxLevel = traversal.maxLevel + 1
        ELSE /\ traversal'.queue = <<>>
             /\ traversal'.maxLevel = traversal.maxLevel

\* The search B has returned with an empty queue and maxLevel is the largest distance
\* of a discovered vertex from the start vertex.
LargestLevel(B) ==
    B.name = "bfs" /\ ~B.running /\ B.queue = <<>> =>
        LET dist(v) == Distance(StepsOf(B), B.startVertex, v)
        IN  /\ \A v \in B.discovered : dist(v) <= B.maxLevel
            /\ \E v \in B.discovered : dist(v) = B.maxLevel

C30_LargestLevelAfterRun == LargestLevel(traversal)

----------------------------------------------------------------------------
\* The innermost call of dfs, the arc that it hands to vm next, and the vertex at the
\* other end of that arc.
InnermostCall == traversal.stack[Len(traversal.stack)]
NextDfsArc ==
    IF InnermostCall.outgoing # <<>> THEN Head(InnermostCall.outgoing)
    ELSE Head(InnermostCall.incoming)
NextDfsPeer ==
    IF InnermostCall.outgoing # <<>> THEN arc[NextDfsArc].head ELSE arc[NextDfsArc].tail

\* The step is vm for an arc that passes onArcDiscovered and the stop conditions.
VmStep ==
    /\ traversal.name = "dfs" /\ traversal.running /\ traversal.stack # <<>>
    /\ InnermostCall.outgoing # <<>> \/ InnermostCall.incoming # <<>>
    /\ ~vmSkips(traversal, NextDfsArc)
    /\ traversal' # traversal

\* The step fires treeArc (nonTreeArc) for the arc, or leaves the list as it was.
TreeArcFires == traversal'.calls.treeArcs = Append(traversal.calls.treeArcs, NextDfsArc)
TreeArcSilent == traversal'.calls.treeArcs = traversal.calls.treeArcs
NonTreeArcFires ==
    traversal'.calls.nonTreeArcs = Append(traversal.calls.nonTreeArcs, NextDfsArc)
NonTreeArcSilent == traversal'.calls.nonTreeArcs = traversal.calls.nonTreeArcs

\* The low number of the vertex of the innermost call after the step is the smaller
\* one of its low number and the number of the peer (is as it was).
LowFolded ==
    LET low == resultOf(traversal.property, InnermostCall.v).lowNumber
        number == resultOf(traversal.property, NextDfsPeer).dfsNumber
    IN  resultOf(traversal'.property, InnermostCall.v).lowNumber =
            IF number < low THEN number ELSE low
LowKept ==
    resultOf(traversal'.property, InnermostCall.v).lowNumber =
        resultOf(traversal.property, InnermostCall.v).lowNumber

\* The branches of vm for an undiscovered peer and for a discovered peer that is not
\* the parent.
VmBranches ==
    /\ NextDfsPeer \notin traversal.discovered =>
          /\ resultOf(traversal'.property, NextDfsPeer).parent = InnermostCall.v
          /\ TreeArcFires /\ NonTreeArcSilent
    /\ (/\ NextDfsPeer \in traversal.discovered
        /\ resultOf(traversal.property, InnermostCall.v).parent # NextDfsPeer) =>
          /\ NonTreeArcFires /\ TreeArcSilent /\ LowFolded

\* The peer is discovered and is the parent of the vertex of the innermost call.
PeerIsParent ==
    /\ NextDfsPeer \in traversal.discovered
    /\ resultOf(traversal.property, InnermostCall.v).parent = NextDfsPeer

\* C31: in DFS, for an arc of v that passes onArcDiscovered and the stop conditions:
\* if its peer u is undiscovered, the parent of u is set to v and treeArc fires and
\* nonTreeArc does not; if u is discovered and is not the parent of v, nonTreeArc
\* fires and the number of u is folded into the low number of v; if u is the parent
\* of v, nonTreeArc does not fire and the low number of v is not changed.
C31_ArcBranches ==
    [][VmStep => /\ VmBranches
                 /\ PeerIsParent => NonTreeArcSilent /\ LowKept]_vars

\* The same, with nonTreeArc fired for an arc to the parent as well.
C31_ArcBranchesParentReported ==
    [][VmStep => /\ VmBranches
                 /\ PeerIsParent => NonTreeArcFires /\ TreeArcSilent /\ LowKept]_vars

\* vm has handled an arc from a vertex to its parent, which has a smaller number.
C31_Witness ==
    /\ traversal.name = "dfs" /\ traversal.calls.nonTreeArcs # <<>>
    /\ \E i \in 1..Len(traversal.calls.nonTreeArcs) : \E v \in traversal.discovered :
         LET a == traversal.calls.nonTreeArcs[i]
         IN  /\ v \in {arc[a].tail, arc[a].head}
             /\ resultOf(traversal.property, v).parent \in {arc[a].tail, arc[a].head} \ {v}

----------------------------------------------------------------------------
\* The vertex instances of the store, live, deactivated or in the pool, and its simple
\* arc instances, in a list of a vertex or in the pool.
VertexInstances == VerticesOf(Store) \cup Range(vertexPool)
ArcInstances ==
    UNION {HeldBy(LiveOut(Store, v) \o LiveIn(Store, v)
                  \o ShadowOut(Store, v) \o ShadowIn(Store, v)) : v \in VerticesOf(Store)}
        \cup {a \in Range(arcPool) : ~isMultiArc(a)}

\* C32: in every state reachable through addVertex, addArc, removeVertex, removeArc,
\* the reservations and clear with any flags, no two distinct vertex instances among
\* the live, the deactivated and the pooled ones have the same id, and no two distinct
\* arc instances have the same id.
C32_IdsUnique ==
    /\ \A v, w \in VertexInstances : vertex[v].id = vertex[w].id => v = w
    /\ \A a, b \in ArcInstances : arc[a].id = arc[b].id => a = b

\* After clear(false, false) the pool has been used up and a vertex was constructed
\* with the id of a recycled one.
C32_Witness ==
    /\ lastOp.op = "addVertex"
    /\ vertexPool = <<>>
    /\ \E v \in Range(vertices) \ {lastOp.args[1]} :
          vertex[v].id = vertex[lastOp.args[1]].id

----------------------------------------------------------------------------
RECURSIVE OutSlots(_)
RECURSIVE InSlots(_)
\* The sum of getOutDegree(v, true), and of getInDegree(v, true), over the vertices of
\* the list s.
OutSlots(s) ==
    IF s = <<>> THEN 0 ELSE getOutDegree(Store, Head(s), TRUE) + OutSlots(Tail(s))
InSlots(s) ==
    IF s = <<>> THEN 0 ELSE getInDegree(Store, Head(s), TRUE) + InSlots(Tail(s))

\* C33: in every reachable state getNumArcs(true) is the number of live outgoing
\* slots, the sum of getOutDegree(v, true) over the live vertices, and the sum of
\* getInDegree(v, true) as well, whichever of addArc, removeArc (of a member of a
\* bundle too), removeVertex, the activations and deactivations, bundleParallelArcs and
\* unbundleParallelArcs has been called.
C33_NumArcsCountsSlots ==
    signal = "ok" =>
        /\ getNumArcs(Store, TRUE) = OutSlots(vertices)
        /\ getNumArcs(Store, TRUE) = InSlots(vertices)

\* The same while no arc is in a bundle.
C33_NumArcsCountsSimpleArcs ==
    signal = "ok" /\ NothingBundled(Store) =>
        /\ getNumArcs(Store, TRUE) = OutSlots(vertices)
        /\ getNumArcs(Store, TRUE) = InSlots(vertices)

\* bundleParallelArcs has put two arcs into one bundle, which takes one slot.
C33_Witness ==
    /\ signal = "ok" /\ lastOp.op = "bundleParallelArcs"
    /\ \E v \in Range(vertices) : \E b \in Range(vertex[v].outgoingMultiArcs) :
          Len(arc[b].arcs) = 2
    /\ numArcs > OutSlots(vertices)

----------------------------------------------------------------------------
\* The arcs and bundles in the live lists of the vertex v, and the members of these
\* bundles.
LiveArcsAt(v) ==
    Range(LiveOut(Store, v) \o LiveIn(Store, v)) \cup HeldBy(LiveOut(Store, v) \o LiveIn(Store, v))

\* C34: in every reachable state every arc in a live outgoing or incoming list, and
\* every member of a live bundle, has a tail and a head that are live vertices: no
\* live arc is incident to a deactivated or hibernated vertex.
C34_LiveArcsBetweenLiveVertices ==
    \A v \in 1..vertexStorage : \A a \in LiveArcsAt(v) :
        arc[a].tail \in Range(vertices) /\ arc[a].head \in Range(vertices)

\* The same while no vertex is deactivated.
C34_LiveArcsBetweenVerticesAllLive ==
    deactivatedVertices = <<>> =>
        \A v \in 1..vertexStorage : \A a \in LiveArcsAt(v) :
            arc[a].tail \in Range(vertices) /\ arc[a].head \in Range(vertices)

\* An activation has put an arc into a live list of a live vertex, and the vertex at
\* the other end of the arc is deactivated.
C34_Witness ==
    /\ lastOp.op \in {"activateVertex", "activateArc"}
    /\ \E v \in Range(vertices) : \E a \in LiveArcsAt(v) :
          {arc[a].tail, arc[a].head} \cap Range(deactivatedVertices) # {}

----------------------------------------------------------------------------
\* The arcs and bundles that have got a tail and a head.
ArcsWithEnds ==
    {a \in ArcObjs : arc[a].tail \in 1..vertexStorage /\ arc[a].head \in 1..vertexStorage}

\* The arc a is in a live list at both of its ends or at none, and in a shadow list
\* at both of its ends or at none.
SameAtBothEnds(a) ==
    /\ a \in Range(LiveOut(Store, arc[a].tail)) <=> a \in Range(LiveIn(Store, arc[a].head))
    /\ a \in Range(ShadowOut(Store, arc[a].tail)) <=> a \in Range(ShadowIn(Store, arc[a].head))

\* C35: in every reachable state an arc is in the live outgoing list of its tail iff it
\* is in the live incoming list of its head, and in the deactivated outgoing list of
\* its tail iff it is in the deactivated incoming list of its head.
C35_ListsAgreeAtBothEnds == \A a \in ArcsWithEnds : SameAtBothEnds(a)

\* The same for the live lists alone.
C35_LiveListsAgreeAtBothEnds ==
    \A a \in ArcsWithEnds :
        a \in Range(LiveOut(Store, arc[a].tail)) <=> a \in Range(LiveIn(Store, arc[a].head))

\* removeVertex has emptied the lists of the head of an arc that the tail, a live
\* vertex, keeps in its deactivated outgoing list.
C35_Witness ==
    /\ lastOp.op = "removeVertex"
    /\ \E a \in ArcsWithEnds :
          /\ arc[a].tail \in Range(vertices)
          /\ a \in Range(ShadowOut(Store, arc[a].tail))
          /\ a \notin Range(ShadowIn(Store, arc[a].head))

----------------------------------------------------------------------------
\* addArc(a, tail, head) for a simple arc a that the store has handed out, with live
\* vertices of which tail is not the tail of a or head is not its head.
DoAddArcWrongEnd(a, tail, head) ==
    /\ signal = "ok"
    /\ ~isMultiArc(a) /\ arc[a].tail # NULL /\ a \notin Range(arcPool)
    /\ tail \in LiveVertices /\ head \in LiveVertices
    /\ arc[a].tail # tail \/ arc[a].head # head
    /\ Becomes(addArc(Store, a, tail, head))
    /\ lastOp' = Call("addArc", <<a, tail, head>>, FALSE)
AddArcWrongEnd ==
    \E a \in ArcObjs : \E tail, head \in VertexObjs :
        DoAddArcWrongEnd(a, tail, head) /\ snap' = NoSnap

\* The store under addVertex, addArc and bundleParallelArcs, under deactivateArc and
\* activateArc of arcs in whatever lists they are, and under addArc of an arc with a
\* vertex that is not its endpoint.
NextFailedCalls ==
    \/ AddVertex(MaxGraphVertices) \/ AddArc(MaxArcsSmall)
    \/ BundleParallelArcs("none", MaxBundlesSmall)
    \/ DeactivateAnyArc \/ ActivateAnyArc \/ AddArcWrongEnd
SpecFailedCalls == Init /\ [][NextFailedCalls]_vars

\* The step is a call of activateArc or deactivateArc that returns false, or a call of
\* addArc that fails with the invalid-endpoint error.
FailedCall ==
    \/ lastOp'.op \in {"activateArc", "deactivateArc"} /\ ~lastOp'.ret
    \/ lastOp'.op = "addArc" /\ signal' = "invalid_argument"

\* The step leaves the lists, the index maps, the arcs and the arc counter.
StoreKept ==
    /\ vertex' = vertex /\ arc' = arc
    /\ sharedOutIndexMap' = sharedOutIndexMap /\ sharedInIndexMap' = sharedInIndexMap
    /\ numArcs' = numArcs

\* C36: when activateArc or deactivateArc returns false, and when addArc fails with an
\* invalid-endpoint error, the store is unchanged: the live and the shadow lists of
\* both endpoints, the index maps, the validity of the arc and the arc counter are as
\* before the call.
C36_FailedCallsKeepStore == [][FailedCall => StoreKept]_vars

\* The same for activateArc and deactivateArc of an arc that is in the same lists at
\* both of its ends, on a store without bundles, and for addArc with a vertex that
\* is not the tail of the arc.
C36_FailedCallsKeepStoreSimpleArcs ==
    [][/\ (/\ FailedCall /\ lastOp'.op # "addArc"
           /\ NothingBundled(Store) /\ SameAtBothEnds(lastOp'.args[1])) => StoreKept
       /\ FailedCall /\ lastOp'.op = "addArc"
              /\ arc[lastOp'.args[1]].tail # lastOp'.args[2] => StoreKept]_vars

\* addArc has failed at the head after it has put the arc into the list of the tail.
C36_Witness ==
    /\ lastOp.op = "addArc" /\ signal = "invalid_argument"
    /\ arc[lastOp.args[1]].tail = lastOp.args[2]
    /\ arc[lastOp.args[1]].head # lastOp.args[3]
    /\ Count(vertex[lastOp.args[2]].outgoingArcs, lastOp.args[1]) = 2

----------------------------------------------------------------------------
\* C37: in every reachable state the arc pool holds only simple arcs, constructed by
\* the store with an id of its counter: a bundle that unbundleParallelArcs has
\* emptied, or that was removed with its vertex, is never the arc that a later
\* addArc hands out.
C37_PoolOfSimpleArcs ==
    /\ \A a \in Range(arcPool) : ~isMultiArc(a) /\ a \in 1..arcStorage
    /\ lastOp.op = "addArc" => ~isMultiArc(lastOp.args[1])

\* The same while bundleParallelArcs has not been called.
C37_PoolOfSimpleArcsUnbundled ==
    bundleHeap = 0 =>
        /\ \A a \in Range(arcPool) : ~isMultiArc(a) /\ a \in 1..arcStorage
        /\ lastOp.op = "addArc" => ~isMultiArc(lastOp.args[1])

\* addArc has handed out a bundle that unbundleParallelArcs had put into the pool.
C37_Witness ==
    /\ lastOp.op = "addArc"
    /\ isMultiArc(lastOp.args[1])
    /\ lastOp.args[1] \in Range(vertex[lastOp.args[2]].outgoingMultiArcs)

----------------------------------------------------------------------------
\* A call of run or resume of a breadth-first search has not returned.
BfsRunning == traversal.name = "bfs" /\ traversal.running

\* The vertices that have been queued and not yet taken from the queue by the loop:
\* the discovered ones that the loop has not explored.
Waiting(B) == B.discovered \ Range(B.explored)

\* C38: during a BFS run the number of entries of the queue, the queued vertices and
\* the sentinel, never exceeds the capacity set at the start of the run, the number of
\* live vertices, so that no queued entry is overwritten or lost, on a graph with a
\* single vertex too.
C38_QueueHoldsEveryEntry ==
    BfsRunning =>
        /\ Len(traversal.queue) <= traversal.capacity
        /\ Waiting(traversal) \subseteq Range(traversal.queue)

\* The same on the graphs with two vertices or more.
C38_QueueHoldsEveryEntryTwoVertices ==
    BfsRunning /\ Len(vertices) >= 2 =>
        /\ Len(traversal.queue) <= traversal.capacity
        /\ Waiting(traversal) \subseteq Range(traversal.queue)

\* run has queued the start vertex and the sentinel on a graph with a single vertex,
\* and the queue holds the sentinel alone.
C38_Witness ==
    /\ BfsRunning /\ Len(vertices) = 1
    /\ traversal.explored = <<>>
    /\ traversal.queue = <<NULL>>


----------------------------------------------------------------------------
\* DFS after a stop condition has held.

DfsStopped == traversal.name = "dfs" /\ traversal.running /\ traversal.stop

\* What the callbacks of DFS have been called with, but for onArcDiscovered.
DfsReported(D) ==
    <<D.discovered, D.calls.verticesDiscovered, D.calls.vertexStops,
      D.calls.treeArcs, D.calls.nonTreeArcs, D.calls.arcStops>>

\* C39: once a stop condition of DFS has returned true, no further vertex is
\* discovered and none of onArcDiscovered, treeArc, nonTreeArc and the stop
\* conditions is called for the remaining arcs of the vertices on the stack.
C39_NothingAfterStop ==
    [][DfsStopped =>
           /\ DfsReported(traversal') = DfsReported(traversal)
           /\ traversal'.calls.arcsDiscovered = traversal.calls.arcsDiscovered]_vars

\* C39 but for onArcDiscovered: once a stop condition of DFS has returned true, no
\* further vertex is discovered, and treeArc, nonTreeArc and onVertexDiscovered are
\* not called, and no stop condition holds again.
C39_NothingAfterStopButArcDiscovered ==
    [][DfsStopped => DfsReported(traversal') = DfsReported(traversal)]_vars

\* DFS has stopped at a vertex below the start vertex, and the start vertex has an
\* arc left that has since been handed to onArcDiscovered.
C39_Witness ==
    /\ DfsStopped
    /\ traversal.calls.vertexStops # <<>>
    /\ Len(traversal.stack) = 1
    /\ Len(traversal.calls.arcsDiscovered) > Len(traversal.calls.treeArcs)
                                               + Len(traversal.calls.nonTreeArcs)


----------------------------------------------------------------------------
\* containsVertex and containsArc.

\* The store after containsVertex(v): vertices.at(v->getIndex()) throws
\* std::out_of_range for an index that is not below the size of the vector.
containsVertexAt(G, v) ==
    IF G.vertex[v].index < Len(G.vertices) THEN G
    ELSE [G EXCEPT !.signal = "out_of_range"]

\* The vertices of this graph: the live, the deactivated and the removed ones.
VerticesOfGraph == Range(vertices) \cup Range(deactivatedVertices) \cup Range(vertexPool)

\* containsVertex(v) for a vertex v of this graph.
DoContainsVertex(v) ==
    /\ signal = "ok"
    /\ v \in VerticesOfGraph
    /\ Becomes(containsVertexAt(Store, v))
    /\ lastOp' = Call("containsVertex", <<v>>, containsVertex(Store, v))
ContainsVertex == \E v \in VertexObjs : DoContainsVertex(v) /\ snap' = NoSnap

\* The store under addVertex, removeVertex, deactivateVertex, addArc and
\* bundleParallelArcs, with containsVertex of the vertices of the graph and
\* containsArc of the arcs that have been handed out.
NextContains ==
    \/ AddVertex(MaxGraphVertices) \/ RemoveVertex("none") \/ DeactivateVertex("none")
    \/ AddArc(MaxArcsSmall) \/ BundleParallelArcs("none", MaxBundlesSmall)
    \/ ContainsVertex \/ ContainsArc
SpecContains == Init /\ [][NextContains]_vars

\* containsVertex has returned whether its argument is a live vertex.
ContainsVertexTells == lastOp.ret = (lastOp.args[1] \in LiveVertices)

\* containsArc has returned whether a live list of the tail holds its argument,
\* directly or as a member of a bundle.
ContainsArcTells == lastOp.ret = HeldByTail(lastOp.args[1])

\* C40: containsVertex(v) returns whether v is a live vertex, and returns false
\* without an error for a removed or deactivated vertex of this graph;
\* containsArc(a, tail) returns whether a is in the live outgoing adjacency of tail,
\* directly or as a member of a bundle.
C40_ContainsTells ==
    /\ lastOp.op = "containsVertex" => signal = "ok" /\ ContainsVertexTells
    /\ lastOp.op = "containsArc" /\ signal = "ok" => ContainsArcTells

\* C40 for the calls of containsVertex that return, and for containsArc of the arcs
\* that are in no bundle.
C40_ContainsTellsWhenReturned ==
    /\ lastOp.op = "containsVertex" /\ signal = "ok" => ContainsVertexTells
    /\ lastOp.op = "containsArc" /\ signal = "ok"
           /\ BundlesAt(arc[lastOp.args[1]].tail, lastOp.args[1]) = {}
           => ContainsArcTells

\* containsVertex has been called for a removed or deactivated vertex.
C40_Witness ==
    /\ lastOp.op = "containsVertex"
    /\ lastOp.args[1] \in Range(vertexPool) \cup Range(deactivatedVertices)

============================================================================
